---- MODULE Spec2Model ----
(***************************************************************************)
(* JSONDataImporter (src/contract/JSONDataImporter.sol): the importer      *)
(* contract, the destination registries it mints into (IDonatableNFT) and  *)
(* the ERC-6551 registry it asks for token bound accounts.                 *)
(*                                                                         *)
(* A transaction of the ledger is one action: it either commits all of its *)
(* writes or, when it reverts, none of them.  An external call made inside *)
(* a transaction (this.importSingleTokenWithTBA in the batch loop) is a    *)
(* nested frame with the same rule.  SpecReentrant splits a single import  *)
(* at its external mint call, where the callee can call back in.           *)
(*                                                                         *)
(* SpecClient adds the front end component (client) that sends the import  *)
(* transactions, SpecRange the two range importers of src/unnamed/part_000 *)
(* (rangeOwner holds their owners).                                        *)
(***************************************************************************)
EXTENDS Naturals, Sequences, FiniteSets, TLC

VARIABLES owner, importedTokens, importerStats, nft, accounts, now, last, stack,
          balance, client, rangeOwner

vars == <<owner, importedTokens, importerStats, nft, accounts, now, last, stack,
          balance, client, rangeOwner>>

(***************************************************************************)
(* Bounds of the model and constants of the program.                       *)
(***************************************************************************)
MaxTime == 2
MaxDepth == 2
MaxShortBatch == 3
MaxSupply == 3
MaxBalance == 1
MaxRangeSupply == 2
MaxBatch == 100
MaxRoyalty == 100
ClientRoyalty == 10
ClientBatchLimit == 100
LargeBatch == 50
LargeBatchPart003 == 10
Salt == 0

Zero == "0x0"
Deployer == "alice"
Actors == {"alice", "bob"}
Self == "importer"
NFTImporter == "nftImporter"
TBAImporter == "tbaImporter"
NFTs == {"nftA", "nftB"}
Tags == {"t1", "t2"}
Senders == Actors \cup {Self} \cup NFTs

URIs == {"", "ipfs://x"}
Recipients == {Zero, "alice"}
Creators == {Zero, "bob"}
Royalties == {MaxRoyalty, MaxRoyalty + 1}
TbaSources == {""} \cup Tags
TbaRegistries == {Zero, "erc6551"}
Implementations == {Zero, "impl"}

ImportData == [tokenURI : URIs, to : Recipients, creator : Creators, isSBT : {FALSE},
               originalTokenInfo : Tags, royaltyRate : Royalties,
               tbaSourceToken : TbaSources]

ImportStats == [totalImported |-> 0, totalFailed |-> 0, lastImportTime |-> 0]

(***************************************************************************)
(* Accounts: an externally owned address, or the account the ERC-6551      *)
(* registry derives from (implementation, chainId, tokenContract, tokenId, *)
(* salt).  The chain is fixed, so it is left out of the tuple.             *)
(***************************************************************************)
EOA(a) == [addr |-> a, impl |-> Zero, tokenContract |-> Zero, tokenId |-> 0, salt |-> 0]

account(implementation, tokenContract, tokenId, salt) ==
    [addr |-> "tba", impl |-> implementation, tokenContract |-> tokenContract,
     tokenId |-> tokenId, salt |-> salt]

\* createAccount: returns the derived address and materializes it (idempotent).
createAccount(st, implementation, tokenContract, tokenId, salt) ==
    [addr |-> account(implementation, tokenContract, tokenId, salt),
     st |-> [st EXCEPT !.accounts = @ \cup {account(implementation, tokenContract, tokenId, salt)}]]

(***************************************************************************)
(* The destination registry (IDonatableNFT): tokens 1..totalSupply, each   *)
(* with its stored origin tag.  A read of a burnt token fails (ok = FALSE) *)
(* and totalSupply itself can be unreadable (supplyOk = FALSE).            *)
(***************************************************************************)
EmptyRegistry == [tokens |-> <<>>, supplyOk |-> TRUE]

totalSupply(reg) == [ok |-> reg.supplyOk, value |-> Len(reg.tokens)]

originalTokenInfo(reg, i) ==
    IF i \in 1..Len(reg.tokens) /\ reg.tokens[i].ok
    THEN [ok |-> TRUE, value |-> reg.tokens[i].info]
    ELSE [ok |-> FALSE, value |-> ""]

\* mintImported on success: the registry appends the token and returns its id.
mintImported(reg, to, metaUrl, feeRate, sbtFlag, creator, originalInfo, minter) ==
    [newTokenId |-> Len(reg.tokens) + 1,
     reg |-> [reg EXCEPT !.tokens =
                Append(@, [to |-> to, metaUrl |-> metaUrl, feeRate |-> feeRate,
                           sbtFlag |-> sbtFlag, creator |-> creator, info |-> originalInfo,
                           minter |-> minter, ok |-> TRUE])]]

\* The ways a mint call can end: success, revert with a reason string
\* (Error(string)), revert with no reason string (empty data, Panic, custom error).
MintOk == [kind |-> "ok", reason |-> ""]
MintError == [kind |-> "error", reason |-> "Not authorized"]
MintBare == [kind |-> "bare", reason |-> ""]
MintOutcomes == {MintOk, MintError, MintBare}

(***************************************************************************)
(* The contract's storage and what it reads, as one record.                *)
(***************************************************************************)
World == [importedTokens |-> importedTokens, importerStats |-> importerStats,
          nft |-> nft, accounts |-> accounts, now |-> now]

\* An emitted event: its name, msg.sender, the target registry, the origin tag
\* and its numeric arguments (a token id, or a batch size, or the two counts).
Event(name, importer, targetNFT, info, a, b, reason) ==
    [name |-> name, importer |-> importer, targetNFT |-> targetNFT, info |-> info,
     a |-> a, b |-> b, reason |-> reason]

\* A call that returned: ret is the list of returned ids (one id for a single import).
Return(st, ret, events) ==
    [reverted |-> FALSE, hasReason |-> FALSE, reason |-> "", ret |-> ret, st |-> st,
     events |-> events]

\* require(false, reason) / revert(reason): the call ends with Error(reason);
\* st is the storage at that point, which the call frame then discards.
Revert(st, reason) ==
    [reverted |-> TRUE, hasReason |-> TRUE, reason |-> reason, ret |-> <<>>, st |-> st,
     events |-> <<>>]

\* A revert that carries no Error(string): no catch Error clause matches it.
RevertBare(st) ==
    [reverted |-> TRUE, hasReason |-> FALSE, reason |-> "", ret |-> <<>>, st |-> st,
     events |-> <<>>]

\* A variant of the call frame that keeps the writes of a call that reverts.
CallFrameKeeping(entry, r) == r

\* An external call frame (a transaction, or this.f(...)): when the call reverts,
\* every write and event made inside it is undone.
CallFrame(entry, r) ==
    IF r.reverted THEN [r EXCEPT !.st = entry, !.events = <<>>] ELSE r

(***************************************************************************)
(* Origin lookup: the two linear scans of the destination registry.        *)
(***************************************************************************)
\* A variant of the scan that a failing read ends.
RECURSIVE ScanStopping(_, _, _, _)
ScanStopping(reg, i, total, tbaSourceToken) ==
    IF i > total THEN 0
    ELSE IF ~originalTokenInfo(reg, i).ok THEN 0
    ELSE IF originalTokenInfo(reg, i).value = tbaSourceToken THEN i
    ELSE ScanStopping(reg, i + 1, total, tbaSourceToken)

RECURSIVE ScanTBASource(_, _, _, _)
ScanTBASource(reg, i, total, tbaSourceToken) ==
    IF i > total THEN 0
    ELSE IF originalTokenInfo(reg, i).ok /\ originalTokenInfo(reg, i).value = tbaSourceToken
         THEN i
         ELSE ScanTBASource(reg, i + 1, total, tbaSourceToken)

\* A variant of the lookup that finds nothing.
NeverFound(reg, tbaSourceToken) == 0

_findTokenByTBASource(reg, tbaSourceToken) ==
    IF totalSupply(reg).ok
    THEN ScanTBASource(reg, 1, totalSupply(reg).value, tbaSourceToken)
    ELSE 0

\* A variant of the scan that a failing read ends.
RECURSIVE ScanImportedStopping(_, _, _, _)
ScanImportedStopping(reg, i, total, info) ==
    IF i > total THEN FALSE
    ELSE IF ~originalTokenInfo(reg, i).ok THEN FALSE
    ELSE IF originalTokenInfo(reg, i).value = info THEN TRUE
    ELSE ScanImportedStopping(reg, i + 1, total, info)

RECURSIVE ScanImported(_, _, _, _)
ScanImported(reg, i, total, info) ==
    IF i > total THEN FALSE
    ELSE IF originalTokenInfo(reg, i).ok /\ originalTokenInfo(reg, i).value = info
         THEN TRUE
         ELSE ScanImported(reg, i + 1, total, info)

\* A variant that reports a duplicate when totalSupply cannot be read.
ImportedFailClosed(reg, info) ==
    IF totalSupply(reg).ok
    THEN ScanImported(reg, 1, totalSupply(reg).value, info)
    ELSE TRUE

_isTokenAlreadyImported(reg, info) ==
    IF totalSupply(reg).ok
    THEN ScanImported(reg, 1, totalSupply(reg).value, info)
    ELSE FALSE

\* A variant that salts each account with the number of accounts created so far.
CreateTBASalted(st, registry, implementation, tokenContract, tokenId) ==
    createAccount(st, implementation, tokenContract, tokenId, Cardinality(st.accounts))

\* A variant that binds the account to the ERC-6551 registry's address instead
\* of the token contract's.
CreateTBAOnRegistry(st, registry, implementation, tokenContract, tokenId) ==
    createAccount(st, implementation, registry, tokenId, Salt)

_createTBA(st, registry, implementation, tokenContract, tokenId) ==
    createAccount(st, implementation, tokenContract, tokenId, Salt)

(***************************************************************************)
(* importSingleTokenWithTBA, statement by statement.                       *)
(***************************************************************************)
\* Variants of the success branch: one that leaves the origin tag unmarked,
\* one that leaves the caller's totalImported as it was.
MintAndForget(st, sender, targetNFT, d, mintTo, out) ==
    IF out.kind = "ok"
    THEN LET m == mintImported(st.nft[targetNFT], mintTo, d.tokenURI, d.royaltyRate, d.isSBT,
                               d.creator, d.originalTokenInfo, Self)
             minted == [st EXCEPT !.nft[targetNFT] = m.reg]
             counted == [minted EXCEPT !.importerStats[sender].totalImported = @ + 1,
                                       !.importerStats[sender].lastImportTime = st.now]
         IN Return(counted, <<m.newTokenId>>,
                   <<Event("JSONDataImported", sender, targetNFT, d.originalTokenInfo,
                           m.newTokenId, 0, "")>>)
    ELSE IF out.kind = "error"
    THEN Revert([st EXCEPT !.importerStats[sender].totalFailed = @ + 1],
                "Import failed: " \o out.reason)
    ELSE RevertBare(st)

MintUncounted(st, sender, targetNFT, d, mintTo, out) ==
    IF out.kind = "ok"
    THEN LET m == mintImported(st.nft[targetNFT], mintTo, d.tokenURI, d.royaltyRate, d.isSBT,
                               d.creator, d.originalTokenInfo, Self)
             minted == [st EXCEPT !.nft[targetNFT] = m.reg]
             marked == [minted EXCEPT !.importedTokens = @ \cup {d.originalTokenInfo}]
             timed == [marked EXCEPT !.importerStats[sender].lastImportTime = st.now]
         IN Return(timed, <<m.newTokenId>>,
                   <<Event("JSONDataImported", sender, targetNFT, d.originalTokenInfo,
                           m.newTokenId, 0, "")>>)
    ELSE IF out.kind = "error"
    THEN Revert([st EXCEPT !.importerStats[sender].totalFailed = @ + 1],
                "Import failed: " \o out.reason)
    ELSE RevertBare(st)

\* try mintImported(...) returns (newTokenId) { ... } catch Error(reason) { ... }
\* entered with the storage st (after _createTBA) and the way the mint ends.
MintAndRecord(st, sender, targetNFT, d, mintTo, out) ==
    IF out.kind = "ok"
    THEN LET m == mintImported(st.nft[targetNFT], mintTo, d.tokenURI, d.royaltyRate, d.isSBT,
                               d.creator, d.originalTokenInfo, Self)
             minted == [st EXCEPT !.nft[targetNFT] = m.reg]
             marked == [minted EXCEPT !.importedTokens = @ \cup {d.originalTokenInfo}]
             counted == [marked EXCEPT !.importerStats[sender].totalImported = @ + 1,
                                       !.importerStats[sender].lastImportTime = st.now]
         IN Return(counted, <<m.newTokenId>>,
                   <<Event("JSONDataImported", sender, targetNFT, d.originalTokenInfo,
                           m.newTokenId, 0, "")>>)
    ELSE IF out.kind = "error"
    THEN LET failed == [st EXCEPT !.importerStats[sender].totalFailed = @ + 1]
         IN Revert(failed, "Import failed: " \o out.reason)
    ELSE RevertBare(st)

\* The reads of the two duplicate checks (and variants that never find one).
NeverMarked(st, info) == FALSE

AlreadyMarked(st, info) == info \in st.importedTokens

NeverStored(st, targetNFT, info) == FALSE

AlreadyStored(st, targetNFT, info) == _isTokenAlreadyImported(st.nft[targetNFT], info)

\* The statements before the mint call: either a require fails (rejected, with
\* the revert r), or the call goes on with the storage st and the recipient mintTo.
Rejected(r) == [rejected |-> TRUE, r |-> r, st |-> r.st, mintTo |-> EOA(Zero)]

Proceed(st, mintTo) ==
    [rejected |-> FALSE, r |-> Return(st, <<>>, <<>>), st |-> st, mintTo |-> mintTo]

PreMint(st, targetNFT, d, registry, implementation) ==
    IF targetNFT = Zero THEN Rejected(Revert(st, "Invalid target NFT address"))
    ELSE IF d.tokenURI = "" THEN Rejected(Revert(st, "Token URI cannot be empty"))
    ELSE IF d.to = Zero THEN Rejected(Revert(st, "Invalid recipient address"))
    ELSE IF d.creator = Zero THEN Rejected(Revert(st, "Invalid creator address"))
    ELSE IF ~(d.royaltyRate <= MaxRoyalty)
         THEN Rejected(Revert(st, "Royalty rate cannot exceed 100%"))
    ELSE IF AlreadyMarked(st, d.originalTokenInfo)
         THEN Rejected(Revert(st, "Token already imported"))
    ELSE IF AlreadyStored(st, targetNFT, d.originalTokenInfo)
         THEN Rejected(Revert(st, "Original token already exists in target NFT"))
    ELSE IF d.tbaSourceToken = "" THEN Proceed(st, EOA(d.to))
    ELSE IF registry = Zero THEN Rejected(Revert(st, "Registry address required for TBA"))
    ELSE IF implementation = Zero
         THEN Rejected(Revert(st, "Implementation address required for TBA"))
    ELSE IF _findTokenByTBASource(st.nft[targetNFT], d.tbaSourceToken) = 0
         THEN Rejected(Revert(st, "TBA source token not found in target NFT"))
    ELSE LET sourceTokenId == _findTokenByTBASource(st.nft[targetNFT], d.tbaSourceToken)
             tba == _createTBA(st, registry, implementation, targetNFT, sourceTokenId)
         IN Proceed(tba.st, tba.addr)

ImportBody(st, sender, targetNFT, d, registry, implementation, out) ==
    LET p == PreMint(st, targetNFT, d, registry, implementation)
    IN IF p.rejected THEN p.r
       ELSE MintAndRecord(p.st, sender, targetNFT, d, p.mintTo, out)

importSingleTokenWithTBA(st, sender, targetNFT, d, registry, implementation, out) ==
    CallFrame(st, ImportBody(st, sender, targetNFT, d, registry, implementation, out))

\* importSingleToken: the same with no TBA source, registry and implementation.
importSingleToken(st, sender, targetNFT, d, out) ==
    importSingleTokenWithTBA(st, sender, targetNFT, [d EXCEPT !.tbaSourceToken = ""],
                             Zero, Zero, out)

\* What a validation returns: (bool isValid, string reason).
Verdict(isValid, reason) == [isValid |-> isValid, reason |-> reason]

\* A variant that tests the royalty rate before the URI and the addresses.
ValidateRoyaltyFirst(st, targetNFT, d) ==
    IF targetNFT = Zero THEN Verdict(FALSE, "Invalid target NFT address")
    ELSE IF d.royaltyRate > MaxRoyalty THEN Verdict(FALSE, "Royalty rate cannot exceed 100%")
    ELSE IF d.tokenURI = "" THEN Verdict(FALSE, "Token URI cannot be empty")
    ELSE IF d.to = Zero THEN Verdict(FALSE, "Invalid recipient address")
    ELSE IF d.creator = Zero THEN Verdict(FALSE, "Invalid creator address")
    ELSE IF d.originalTokenInfo \in st.importedTokens
         THEN Verdict(FALSE, "Token already imported")
    ELSE IF _isTokenAlreadyImported(st.nft[targetNFT], d.originalTokenInfo)
         THEN Verdict(FALSE, "Original token already exists in target NFT")
    ELSE Verdict(TRUE, "")

\* validateImportData: the same checks as a view, returning the first failure.
validateImportData(st, targetNFT, d) ==
    IF targetNFT = Zero THEN Verdict(FALSE, "Invalid target NFT address")
    ELSE IF d.tokenURI = "" THEN Verdict(FALSE, "Token URI cannot be empty")
    ELSE IF d.to = Zero THEN Verdict(FALSE, "Invalid recipient address")
    ELSE IF d.creator = Zero THEN Verdict(FALSE, "Invalid creator address")
    ELSE IF d.royaltyRate > MaxRoyalty THEN Verdict(FALSE, "Royalty rate cannot exceed 100%")
    ELSE IF d.originalTokenInfo \in st.importedTokens
         THEN Verdict(FALSE, "Token already imported")
    ELSE IF _isTokenAlreadyImported(st.nft[targetNFT], d.originalTokenInfo)
         THEN Verdict(FALSE, "Original token already exists in target NFT")
    ELSE Verdict(TRUE, "")

\* A variant of validateBatch that reserves the tags it finds valid.
validateBatchReserving(st, targetNFT, imports) ==
    Return([st EXCEPT !.importedTokens = @ \cup
                {imports[i].originalTokenInfo : i \in
                    {j \in 1..Len(imports) :
                        validateImportData(st, targetNFT, imports[j]).isValid}}],
           [i \in 1..Len(imports) |-> validateImportData(st, targetNFT, imports[i])],
           <<>>)

\* validateBatch: one verdict per record, each from this.validateImportData in
\* the same storage; a view call returns with the storage it was given.
validateBatch(st, targetNFT, imports) ==
    Return(st, [i \in 1..Len(imports) |-> validateImportData(st, targetNFT, imports[i])],
           <<>>)

(***************************************************************************)
(* importBatchWithTBA: the size checks, then the loop of external calls    *)
(* this.importSingleTokenWithTBA(...), whose msg.sender is the contract.   *)
(* outs[i] is the way the mint call of record i ends, if it is reached.    *)
(***************************************************************************)
\* A variant of the iteration in which a failed record ends the whole batch.
BatchStepAborting(acc, sender, targetNFT, imports, registry, implementation, outs, i) ==
    LET r == importSingleTokenWithTBA(acc.st, Self, targetNFT, imports[i],
                                      registry, implementation, outs[i])
    IN IF ~r.reverted
       THEN [acc EXCEPT !.st = r.st,
                        !.newTokenIds = Append(@, r.ret[1]),
                        !.successCount = @ + 1,
                        !.events = @ \o r.events]
       ELSE [acc EXCEPT !.aborted = TRUE]

\* A variant of the iteration that leaves a failed record out of the results.
BatchStepOmitting(acc, sender, targetNFT, imports, registry, implementation, outs, i) ==
    LET r == importSingleTokenWithTBA(acc.st, Self, targetNFT, imports[i],
                                      registry, implementation, outs[i])
    IN IF ~r.reverted
       THEN [acc EXCEPT !.st = r.st,
                        !.newTokenIds = Append(@, r.ret[1]),
                        !.successCount = @ + 1,
                        !.events = @ \o r.events]
       ELSE IF r.hasReason
       THEN [acc EXCEPT !.st = r.st,
                        !.failureCount = @ + 1,
                        !.events = Append(@, Event("ImportFailed", sender, targetNFT,
                                                   imports[i].originalTokenInfo, 0, 0, r.reason))]
       ELSE [acc EXCEPT !.aborted = TRUE]

\* One iteration of the loop, entered with the loop's locals acc.
BatchStep(acc, sender, targetNFT, imports, registry, implementation, outs, i) ==
    LET r == importSingleTokenWithTBA(acc.st, Self, targetNFT, imports[i],
                                      registry, implementation, outs[i])
    IN IF ~r.reverted
       THEN [acc EXCEPT !.st = r.st,
                        !.newTokenIds = Append(@, r.ret[1]),
                        !.successCount = @ + 1,
                        !.events = @ \o r.events]
       ELSE IF r.hasReason
       THEN [acc EXCEPT !.st = r.st,
                        !.newTokenIds = Append(@, 0),
                        !.failureCount = @ + 1,
                        !.events = Append(@, Event("ImportFailed", sender, targetNFT,
                                                   imports[i].originalTokenInfo, 0, 0, r.reason))]
       ELSE [acc EXCEPT !.aborted = TRUE]

\* Iterations lo..hi in order, stopping at an uncaught revert.  The range is
\* split in two so that a batch of MaxBatch records needs no deep recursion.
RECURSIVE BatchRange(_, _, _, _, _, _, _, _, _)
BatchRange(acc, sender, targetNFT, imports, registry, implementation, outs, lo, hi) ==
    IF acc.aborted \/ lo > hi THEN acc
    ELSE IF lo = hi
    THEN BatchStep(acc, sender, targetNFT, imports, registry, implementation, outs, lo)
    ELSE BatchRange(BatchRange(acc, sender, targetNFT, imports, registry, implementation,
                               outs, lo, (lo + hi) \div 2),
                    sender, targetNFT, imports, registry, implementation, outs,
                    (lo + hi) \div 2 + 1, hi)

\* A variant that announces the batch only after its records were processed.
BatchLoopLateStart(st, sender, targetNFT, imports, registry, implementation, outs) ==
    LET acc == BatchRange([st |-> st, newTokenIds |-> <<>>, successCount |-> 0,
                           failureCount |-> 0, aborted |-> FALSE, events |-> <<>>],
                          sender, targetNFT, imports, registry, implementation, outs,
                          1, Len(imports))
    IN IF acc.aborted THEN RevertBare(acc.st)
       ELSE Return(acc.st, acc.newTokenIds,
                   acc.events \o
                   <<Event("BatchImportStarted", sender, targetNFT, "", Len(imports), 0, ""),
                     Event("BatchImportCompleted", sender, targetNFT, "",
                           acc.successCount, acc.failureCount, "")>>)

BatchLoop(st, sender, targetNFT, imports, registry, implementation, outs) ==
    LET acc == BatchRange([st |-> st, newTokenIds |-> <<>>, successCount |-> 0,
                           failureCount |-> 0, aborted |-> FALSE,
                           events |-> <<Event("BatchImportStarted", sender, targetNFT, "",
                                              Len(imports), 0, "")>>],
                          sender, targetNFT, imports, registry, implementation, outs,
                          1, Len(imports))
    IN IF acc.aborted THEN RevertBare(acc.st)
       ELSE Return(acc.st, acc.newTokenIds,
                   Append(acc.events,
                          Event("BatchImportCompleted", sender, targetNFT, "",
                                acc.successCount, acc.failureCount, "")))

\* A variant with no upper limit on the batch size.
BatchBodyUnbounded(st, sender, targetNFT, imports, registry, implementation, outs) ==
    IF ~(Len(imports) > 0) THEN Revert(st, "No imports provided")
    ELSE BatchLoop(st, sender, targetNFT, imports, registry, implementation, outs)

BatchBody(st, sender, targetNFT, imports, registry, implementation, outs) ==
    IF ~(Len(imports) > 0) THEN Revert(st, "No imports provided")
    ELSE IF ~(Len(imports) <= MaxBatch)
         THEN Revert(st, "Batch size too large. Maximum 100 NFTs per batch")
    ELSE BatchLoop(st, sender, targetNFT, imports, registry, implementation, outs)

importBatchWithTBA(st, sender, targetNFT, imports, registry, implementation, outs) ==
    CallFrame(st, BatchBody(st, sender, targetNFT, imports, registry, implementation, outs))

importBatch(st, sender, targetNFT, imports, outs) ==
    importBatchWithTBA(st, sender, targetNFT, imports, Zero, Zero, outs)

(***************************************************************************)
(* Administrative operations.                                              *)
(***************************************************************************)
\* A variant of the modifier that lets every caller through.
AnyoneIsOwner(own, sender) == TRUE

\* modifier onlyOwner: require(msg.sender == owner, "Owner only").
onlyOwner(own, sender) == sender = own

\* A variant of the reset that leaves the tag admitted.
ResetKeepsTag(st, own, sender, info) ==
    IF ~onlyOwner(own, sender) THEN Revert(st, "Owner only")
    ELSE Return(st, <<>>, <<>>)

resetImportStatus(st, own, sender, info) ==
    IF ~onlyOwner(own, sender) THEN Revert(st, "Owner only")
    ELSE Return([st EXCEPT !.importedTokens = @ \ {info}], <<>>, <<>>)

transferOwnership(own, sender, newOwner) ==
    IF ~onlyOwner(own, sender) THEN [reverted |-> TRUE, reason |-> "Owner only", owner |-> own]
    ELSE IF newOwner = Zero THEN [reverted |-> TRUE, reason |-> "Invalid address", owner |-> own]
    ELSE [reverted |-> FALSE, reason |-> "", owner |-> newOwner]

\* withdraw: the whole balance goes to the owner.
withdraw(own, sender, bal) ==
    IF ~onlyOwner(own, sender)
    THEN [reverted |-> TRUE, reason |-> "Owner only", balance |-> bal, paid |-> 0]
    ELSE IF ~(bal > 0)
    THEN [reverted |-> TRUE, reason |-> "No balance to withdraw", balance |-> bal, paid |-> 0]
    ELSE [reverted |-> FALSE, reason |-> "", balance |-> 0, paid |-> bal]

(***************************************************************************)
(* The inputs the actions draw from.                                       *)
(***************************************************************************)
Base(t, s) == [tokenURI |-> "ipfs://x", to |-> "alice", creator |-> "bob", isSBT |-> FALSE,
               originalTokenInfo |-> t, royaltyRate |-> MaxRoyalty, tbaSourceToken |-> s]

Bit(b) == IF b THEN 1 ELSE 0

\* How many of the input checks a call fails on its arguments alone.
Defects(c) ==
    Bit(c.targetNFT = Zero) + Bit(c.d.tokenURI = "") + Bit(c.d.to = Zero)
    + Bit(c.d.creator = Zero) + Bit(c.d.royaltyRate > MaxRoyalty)
    + Bit(c.d.tbaSourceToken # "" /\ c.registry = Zero)
    + Bit(c.d.tbaSourceToken # "" /\ c.implementation = Zero)

\* Calls of a single import: every call with at most one defective argument.
SingleCalls ==
    {c \in [targetNFT : NFTs \cup {Zero}, d : ImportData,
            registry : TbaRegistries, implementation : Implementations] :
        /\ Defects(c) <= 1
        /\ c.d.tbaSourceToken = "" => (c.registry = Zero /\ c.implementation = Zero)}

LegacyCalls == {c \in SingleCalls : c.d.tbaSourceToken = ""}

Repeat(x, n) == [i \in 1..n |-> x]

\* Batches of the legacy entry point: two valid records and an invalid one, in
\* every order and number up to MaxShortBatch, and the two batches around MaxBatch.
BatchRecords == {Base(t, "") : t \in Tags} \cup {[Base("t1", "") EXCEPT !.to = Zero]}

ShortBatches == UNION {[1..n -> BatchRecords] : n \in 0..MaxShortBatch}

LongBatches == {Repeat(Base("t1", ""), MaxBatch), Repeat(Base("t1", ""), MaxBatch + 1)}

\* Batches with a parent record and a child record naming it as TBA source.
TbaRecords == {Base("t1", ""), Base("t2", "t1")}

TbaBatches == UNION {[1..n -> TbaRecords] : n \in 1..MaxShortBatch}

\* The mint outcomes of a batch: every mint succeeds, or the registry fails
\* the mint of origin tag t2, with or without a reason string.
AllMintsOk == [t \in Tags |-> MintOk]

MintPlans ==
    {AllMintsOk} \cup
    {[t \in Tags |-> IF t = "t2" THEN o ELSE MintOk] : o \in {MintError, MintBare}}

OutsOf(imports, plan) == [i \in 1..Len(imports) |-> plan[imports[i].originalTokenInfo]]

BatchInputs ==
    {[imports |-> b, outs |-> OutsOf(b, plan)] : b \in ShortBatches, plan \in MintPlans}

LongBatchInputs == {[imports |-> b, outs |-> OutsOf(b, AllMintsOk)] : b \in LongBatches}

TbaBatchInputs == {[imports |-> b, outs |-> OutsOf(b, AllMintsOk)] : b \in TbaBatches}

(***************************************************************************)
(* State, initial state and the transactions.                              *)
(*                                                                         *)
(* last is the call in flight towards its caller: the arguments of the     *)
(* transaction just executed and what it returned.  A transaction runs     *)
(* when no result is in flight, and Deliver hands the result over.         *)
(***************************************************************************)
\* The owner of each range importer after deployment.
RangeOwners == [c \in {NFTImporter, TBAImporter} |-> Deployer]

\* The transaction of the front end: none yet.
NoTx == [op |-> "none", imports |-> <<>>, registry |-> Zero, implementation |-> Zero,
         mined |-> FALSE, reverted |-> FALSE, ret |-> <<>>]

\* The front end component before its first import.
ClientIdle == [file |-> "tsx", pc |-> "idle", account |-> Zero, targetNFT |-> Zero,
               selected |-> <<>>, k |-> 0, total |-> 0, i |-> 0, step |-> 0, tx |-> NoTx,
               importResults |-> <<>>, delivered |-> FALSE]

NoCall == [op |-> "none", sender |-> Zero, targetNFT |-> Zero, imports |-> <<>>,
           registry |-> Zero, implementation |-> Zero, outs |-> <<>>,
           reverted |-> FALSE, hasReason |-> FALSE, reason |-> "", ret |-> <<>>,
           events |-> <<>>, arg |-> ""]

Call(op, sender, targetNFT, imports, registry, implementation, outs, r) ==
    [op |-> op, sender |-> sender, targetNFT |-> targetNFT, imports |-> imports,
     registry |-> registry, implementation |-> implementation, outs |-> outs,
     reverted |-> r.reverted, hasReason |-> r.hasReason, reason |-> r.reason,
     ret |-> r.ret, events |-> r.events, arg |-> ""]

\* An administrative transaction: its one argument (a tag or an address) and
\* whether it reverted.
AdminCall(op, sender, arg, reverted, reason) ==
    [NoCall EXCEPT !.op = op, !.sender = sender, !.arg = arg, !.reverted = reverted,
                   !.hasReason = reverted, !.reason = reason]

\* The registries exist before the importer: nftA starts empty, and nftB already
\* holds a token of origin t2 that was minted through another path.
ForeignToken ==
    [to |-> EOA("alice"), metaUrl |-> "ipfs://x", feeRate |-> 0, sbtFlag |-> FALSE,
     creator |-> "bob", info |-> "t2", minter |-> "other", ok |-> TRUE]

InitialRegistries ==
    [n \in NFTs |-> IF n = "nftB" THEN [EmptyRegistry EXCEPT !.tokens = <<ForeignToken>>]
                                  ELSE EmptyRegistry]

Init ==
    /\ owner = Deployer
    /\ importedTokens = {}
    /\ importerStats = [a \in Senders |-> ImportStats]
    /\ nft = InitialRegistries
    /\ accounts = {}
    /\ now = 1
    /\ last = NoCall
    /\ stack = <<>>
    /\ balance = 0
    /\ client = ClientIdle
    /\ rangeOwner = RangeOwners

\* The transaction's result becomes the storage.
Commit(st) ==
    /\ importedTokens' = st.importedTokens
    /\ importerStats' = st.importerStats
    /\ nft' = st.nft
    /\ accounts' = st.accounts

Idle == last = NoCall /\ stack = <<>>

\* The mint outcomes worth drawing for a call: one when the mint is not reached.
OutcomesFor(c) ==
    IF PreMint(World, c.targetNFT, c.d, c.registry, c.implementation).rejected
    THEN {MintOk} ELSE MintOutcomes

ImportSingleTokenWithTBA ==
    /\ Idle
    /\ \E sender \in Actors, c \in SingleCalls :
         \E out \in OutcomesFor(c) :
           LET r == importSingleTokenWithTBA(World, sender, c.targetNFT, c.d, c.registry,
                                             c.implementation, out)
           IN /\ Commit(r.st)
              /\ last' = Call("importSingleTokenWithTBA", sender, c.targetNFT, <<c.d>>,
                              c.registry, c.implementation, <<out>>, r)
    /\ UNCHANGED <<owner, now, stack, balance, client, rangeOwner>>

ImportSingleToken ==
    /\ Idle
    /\ \E sender \in Actors, c \in LegacyCalls :
         \E out \in OutcomesFor(c) :
           LET r == importSingleToken(World, sender, c.targetNFT, c.d, out)
           IN /\ Commit(r.st)
              /\ last' = Call("importSingleToken", sender, c.targetNFT, <<c.d>>,
                              Zero, Zero, <<out>>, r)
    /\ UNCHANGED <<owner, now, stack, balance, client, rangeOwner>>

ImportBatchWithTBA ==
    /\ Idle
    /\ \E sender \in Actors, targetNFT \in NFTs, b \in TbaBatchInputs :
           LET r == importBatchWithTBA(World, sender, targetNFT, b.imports, "erc6551", "impl",
                                       b.outs)
           IN /\ Commit(r.st)
              /\ last' = Call("importBatchWithTBA", sender, targetNFT, b.imports,
                              "erc6551", "impl", b.outs, r)
    /\ UNCHANGED <<owner, now, stack, balance, client, rangeOwner>>

ImportBatch ==
    /\ Idle
    /\ \E sender \in Actors, targetNFT \in NFTs, b \in BatchInputs \cup LongBatchInputs :
           LET r == importBatch(World, sender, targetNFT, b.imports, b.outs)
           IN /\ b \in LongBatchInputs => (sender = Deployer /\ targetNFT = "nftA")
              /\ Commit(r.st)
              /\ last' = Call("importBatch", sender, targetNFT, b.imports,
                              Zero, Zero, b.outs, r)
    /\ UNCHANGED <<owner, now, stack, balance, client, rangeOwner>>

\* The caller takes the result.
Deliver ==
    /\ last # NoCall
    /\ stack = <<>>
    /\ last' = NoCall
    /\ UNCHANGED <<owner, importedTokens, importerStats, nft, accounts, now, stack,
                   balance, client, rangeOwner>>

\* A later block: block.timestamp grows.
Tick ==
    /\ Idle
    /\ now < MaxTime
    /\ now' = now + 1
    /\ UNCHANGED <<owner, importedTokens, importerStats, nft, accounts, last, stack,
                   balance, client, rangeOwner>>

Next ==
    \/ ImportSingleTokenWithTBA
    \/ ImportSingleToken
    \/ ImportBatchWithTBA
    \/ ImportBatch
    \/ Deliver
    \/ Tick

Spec == Init /\ [][Next]_vars

(***************************************************************************)
(* The same import with its external mint call as a step of its own.       *)
(* stack holds the imports that have passed their checks and wait for      *)
(* mintImported to return; the callee may call the importer again before   *)
(* it returns (msg.sender is then the callee).  A frame that reverts       *)
(* restores the storage it was entered with and drops the logs made inside *)
(* it; a frame that returns hands its logs, those of the calls made inside *)
(* it first, to the frame that called it.                                  *)
(***************************************************************************)
ReentrantCalls ==
    {c \in SingleCalls : c.d.tbaSourceToken = "" /\ c.d.royaltyRate <= MaxRoyalty
                          /\ c.d.creator # Zero /\ c.d.tokenURI # ""}

Frame(sender, c, p, entry) ==
    [sender |-> sender, targetNFT |-> c.targetNFT, d |-> c.d, registry |-> c.registry,
     implementation |-> c.implementation, mintTo |-> p.mintTo, entry |-> entry,
     events |-> <<>>]

\* A transaction starts a single import and runs it up to the mint call.
BeginImport ==
    /\ Idle
    /\ \E sender \in Actors, c \in ReentrantCalls :
         LET p == PreMint(World, c.targetNFT, c.d, c.registry, c.implementation)
         IN IF p.rejected
            THEN /\ Commit(CallFrame(World, p.r).st)
                 /\ last' = Call("importSingleTokenWithTBA", sender, c.targetNFT, <<c.d>>,
                                 c.registry, c.implementation, <<>>, CallFrame(World, p.r))
                 /\ stack' = stack
            ELSE /\ Commit(p.st)
                 /\ last' = last
                 /\ stack' = <<Frame(sender, c, p, World)>>
    /\ UNCHANGED <<owner, now, balance, client, rangeOwner>>

\* The registry that is executing a mint calls importSingleTokenWithTBA.  A call
\* that fails a require changes nothing and returns to the registry.
Reenter ==
    /\ stack # <<>>
    /\ Len(stack) < MaxDepth
    /\ \E c \in ReentrantCalls :
         LET sender == stack[Len(stack)].targetNFT
             p == PreMint(World, c.targetNFT, c.d, c.registry, c.implementation)
         IN /\ ~p.rejected
            /\ Commit(p.st)
            /\ stack' = Append(stack, Frame(sender, c, p, World))
    /\ UNCHANGED <<owner, now, last, balance, client, rangeOwner>>

\* The innermost mint call ends and its import finishes.  A frame that returns
\* keeps the logs of the calls made inside it, before its own, and hands them
\* to the frame that called it; a frame that reverts drops them.
SettleMint ==
    /\ stack # <<>>
    /\ \E out \in MintOutcomes :
         LET f == stack[Len(stack)]
             own == CallFrame(f.entry,
                              MintAndRecord(World, f.sender, f.targetNFT, f.d, f.mintTo, out))
             r == IF own.reverted THEN own ELSE [own EXCEPT !.events = f.events \o @]
         IN /\ Commit(r.st)
            /\ stack' = IF Len(stack) = 1 THEN <<>>
                        ELSE [SubSeq(stack, 1, Len(stack) - 1)
                                EXCEPT ![Len(stack) - 1].events = @ \o r.events]
            /\ last' = IF Len(stack) = 1
                       THEN Call("importSingleTokenWithTBA", f.sender, f.targetNFT, <<f.d>>,
                                 f.registry, f.implementation, <<out>>, r)
                       ELSE last
    /\ UNCHANGED <<owner, now, balance, client, rangeOwner>>

NextReentrant ==
    \/ BeginImport
    \/ Reenter
    \/ SettleMint
    \/ Deliver

SpecReentrant == Init /\ [][NextReentrant]_vars

(***************************************************************************)
(* Pre-flight validation.  The view functions validateImportData and       *)
(* validateBatch are called between imports, with records that may fail    *)
(* any number of checks at once.                                           *)
(***************************************************************************)
\* Every record, sent to either registry or to the zero address, without a TBA
\* source or with one and the ERC-6551 registry and implementation.
AnyCalls ==
    {c \in [targetNFT : NFTs \cup {Zero}, d : ImportData,
            registry : TbaRegistries, implementation : Implementations] :
        IF c.d.tbaSourceToken = "" THEN c.registry = Zero /\ c.implementation = Zero
        ELSE c.registry # Zero /\ c.implementation # Zero}

ValidateRecords == {d \in ImportData : d.tbaSourceToken = ""}

ValidateBatches ==
    {<<>>} \cup {<<d>> : d \in BatchRecords} \cup
    {<<Base(t, ""), [Base(u, "") EXCEPT !.royaltyRate = MaxRoyalty + 1], Base(u, "")>> :
        t \in Tags, u \in Tags}

ImportAnyRecord ==
    /\ Idle
    /\ \E c \in AnyCalls :
         LET r == importSingleTokenWithTBA(World, Deployer, c.targetNFT, c.d, c.registry,
                                           c.implementation, MintOk)
         IN /\ Commit(r.st)
            /\ last' = Call("importSingleTokenWithTBA", Deployer, c.targetNFT, <<c.d>>,
                            c.registry, c.implementation, <<MintOk>>, r)
    /\ UNCHANGED <<owner, now, stack, balance, client, rangeOwner>>

ValidateImportData ==
    /\ Idle
    /\ \E sender \in Actors, targetNFT \in NFTs \cup {Zero}, d \in ValidateRecords :
         LET r == Return(World, <<validateImportData(World, targetNFT, d)>>, <<>>)
         IN /\ Commit(r.st)
            /\ last' = Call("validateImportData", sender, targetNFT, <<d>>, Zero, Zero,
                            <<>>, r)
    /\ UNCHANGED <<owner, now, stack, balance, client, rangeOwner>>

ValidateBatch ==
    /\ Idle
    /\ \E sender \in Actors, targetNFT \in NFTs, b \in ValidateBatches :
         LET r == validateBatch(World, targetNFT, b)
         IN /\ Commit(r.st)
            /\ last' = Call("validateBatch", sender, targetNFT, b, Zero, Zero, <<>>, r)
    /\ UNCHANGED <<owner, now, stack, balance, client, rangeOwner>>

NextValidate ==
    \/ ImportAnyRecord
    \/ ValidateImportData
    \/ ValidateBatch
    \/ Deliver

SpecValidate == Init /\ [][NextValidate]_vars

(***************************************************************************)
(* The destination registry as an external collaborator.  Registry nftA is *)
(* also written by other paths: tokens are minted into it with any origin  *)
(* tag, tokens are burnt (their origin tag can no longer be read), and its *)
(* totalSupply may be a function that cannot be read at all.  MaxSupply    *)
(* bounds the number of tokens of nftA.                                    *)
(***************************************************************************)
InitEnv ==
    /\ owner = Deployer
    /\ importedTokens = {}
    /\ importerStats = [a \in Senders |-> ImportStats]
    /\ nft \in {[InitialRegistries EXCEPT !["nftA"].supplyOk = b] : b \in BOOLEAN}
    /\ accounts = {}
    /\ now = 1
    /\ last = NoCall
    /\ stack = <<>>
    /\ balance = 0
    /\ client = ClientIdle
    /\ rangeOwner = RangeOwners

\* Valid records of either tag, with no TBA source or with either tag as source.
EnvCalls ==
    {[targetNFT |-> "nftA", d |-> Base(t, s),
      registry |-> IF s = "" THEN Zero ELSE "erc6551",
      implementation |-> IF s = "" THEN Zero ELSE "impl"] : t \in Tags, s \in TbaSources}

\* A parent and a child naming it, in one batch.
EnvBatches == {<<Base(t, ""), Base(u, t)>> : t \in Tags, u \in Tags}

\* Another path mints a token of origin tag t into nftA.
EnvMint ==
    /\ Idle
    /\ Len(nft["nftA"].tokens) < MaxSupply
    /\ \E t \in Tags :
         nft' = [nft EXCEPT !["nftA"].tokens = Append(@, [ForeignToken EXCEPT !.info = t])]
    /\ UNCHANGED <<owner, importedTokens, importerStats, accounts, now, last, stack,
                   balance, client, rangeOwner>>

\* A token of nftA is burnt: reading its origin tag fails from now on.
EnvBurn ==
    /\ Idle
    /\ \E i \in 1..Len(nft["nftA"].tokens) :
         /\ nft["nftA"].tokens[i].ok
         /\ nft' = [nft EXCEPT !["nftA"].tokens[i].ok = FALSE]
    /\ UNCHANGED <<owner, importedTokens, importerStats, accounts, now, last, stack,
                   balance, client, rangeOwner>>

EnvImport ==
    /\ Idle
    /\ Len(nft["nftA"].tokens) < MaxSupply
    /\ \E c \in EnvCalls :
         LET r == importSingleTokenWithTBA(World, Deployer, c.targetNFT, c.d, c.registry,
                                           c.implementation, MintOk)
         IN /\ Commit(r.st)
            /\ last' = Call("importSingleTokenWithTBA", Deployer, c.targetNFT, <<c.d>>,
                            c.registry, c.implementation, <<MintOk>>, r)
    /\ UNCHANGED <<owner, now, stack, balance, client, rangeOwner>>

EnvImportBatch ==
    /\ Idle
    /\ Len(nft["nftA"].tokens) + 2 <= MaxSupply
    /\ \E b \in EnvBatches :
         LET r == importBatchWithTBA(World, Deployer, "nftA", b, "erc6551", "impl",
                                     OutsOf(b, AllMintsOk))
         IN /\ Commit(r.st)
            /\ last' = Call("importBatchWithTBA", Deployer, "nftA", b, "erc6551", "impl",
                            OutsOf(b, AllMintsOk), r)
    /\ UNCHANGED <<owner, now, stack, balance, client, rangeOwner>>

EnvValidate ==
    /\ Idle
    /\ \E t \in Tags :
         LET r == Return(World, <<validateImportData(World, "nftA", Base(t, ""))>>, <<>>)
         IN /\ Commit(r.st)
            /\ last' = Call("validateImportData", Deployer, "nftA", <<Base(t, "")>>,
                            Zero, Zero, <<>>, r)
    /\ UNCHANGED <<owner, now, stack, balance, client, rangeOwner>>

NextEnv ==
    \/ EnvMint
    \/ EnvBurn
    \/ EnvImport
    \/ EnvImportBatch
    \/ EnvValidate
    \/ Deliver

SpecEnv == InitEnv /\ [][NextEnv]_vars

(***************************************************************************)
(* Nested-ownership account resolution.  Children of the token that nftB   *)
(* holds from the start (origin tag t2) are imported one after another or  *)
(* in one batch, with either of two account implementations; in nftA the   *)
(* parent is missing.                                                      *)
(***************************************************************************)
ChildTags == {"t1", "t3"}

ChildImplementations == {"impl", "impl2"}

ResolverCalls ==
    {[targetNFT |-> n, d |-> Base(t, "t2"), registry |-> "erc6551", implementation |-> i] :
        n \in NFTs, t \in ChildTags, i \in ChildImplementations}

ResolverBatches == {<<Base(t, "t2"), Base(u, "t2")>> : t \in ChildTags, u \in ChildTags}

ResolveImport ==
    /\ Idle
    /\ \E sender \in Actors, c \in ResolverCalls :
         \E out \in OutcomesFor(c) :
           LET r == importSingleTokenWithTBA(World, sender, c.targetNFT, c.d, c.registry,
                                             c.implementation, out)
           IN /\ Commit(r.st)
              /\ last' = Call("importSingleTokenWithTBA", sender, c.targetNFT, <<c.d>>,
                              c.registry, c.implementation, <<out>>, r)
    /\ UNCHANGED <<owner, now, stack, balance, client, rangeOwner>>

ResolveBatch ==
    /\ Idle
    /\ \E sender \in Actors, b \in ResolverBatches, i \in ChildImplementations :
         LET outs == [k \in 1..Len(b) |-> MintOk]
             r == importBatchWithTBA(World, sender, "nftB", b, "erc6551", i, outs)
         IN /\ Commit(r.st)
            /\ last' = Call("importBatchWithTBA", sender, "nftB", b, "erc6551", i, outs, r)
    /\ UNCHANGED <<owner, now, stack, balance, client, rangeOwner>>

NextResolver ==
    \/ ResolveImport
    \/ ResolveBatch
    \/ Deliver
    \/ Tick

SpecResolver == Init /\ [][NextResolver]_vars

(***************************************************************************)
(* The importer with its administrative operations.  Imports and batches   *)
(* into nftA carry a value of 0 or 1 (the entry points are payable), the    *)
(* owner or anyone else calls resetImportStatus, transferOwnership and      *)
(* withdraw.  MaxBalance bounds the balance.                                *)
(***************************************************************************)
Values == {0, 1}

AdminOutcomes == {MintOk, MintError}

AdminBatches == {<<Base(t, ""), Base(u, "")>> : t \in Tags, u \in Tags}

AdminImport ==
    /\ Idle
    /\ Len(nft["nftA"].tokens) < MaxSupply
    /\ \E sender \in Actors, t \in Tags, out \in AdminOutcomes, value \in Values :
         LET r == importSingleToken(World, sender, "nftA", Base(t, ""), out)
         IN /\ balance + value <= MaxBalance
            /\ Commit(r.st)
            /\ balance' = IF r.reverted THEN balance ELSE balance + value
            /\ last' = Call("importSingleToken", sender, "nftA", <<Base(t, "")>>, Zero, Zero,
                            <<out>>, r)
    /\ UNCHANGED <<owner, now, stack, client, rangeOwner>>

AdminImportBatch ==
    /\ Idle
    /\ Len(nft["nftA"].tokens) + 2 <= MaxSupply
    /\ \E sender \in Actors, b \in AdminBatches, value \in Values :
         LET r == importBatch(World, sender, "nftA", b, OutsOf(b, AllMintsOk))
         IN /\ balance + value <= MaxBalance
            /\ Commit(r.st)
            /\ balance' = IF r.reverted THEN balance ELSE balance + value
            /\ last' = Call("importBatch", sender, "nftA", b, Zero, Zero,
                            OutsOf(b, AllMintsOk), r)
    /\ UNCHANGED <<owner, now, stack, client, rangeOwner>>

ResetImportStatus ==
    /\ Idle
    /\ \E sender \in Actors, t \in Tags :
         LET r == CallFrame(World, resetImportStatus(World, owner, sender, t))
         IN /\ Commit(r.st)
            /\ last' = AdminCall("resetImportStatus", sender, t, r.reverted, r.reason)
    /\ UNCHANGED <<owner, now, stack, balance, client, rangeOwner>>

TransferOwnership ==
    /\ Idle
    /\ \E sender \in Actors, newOwner \in Actors \cup {Zero} :
         LET r == transferOwnership(owner, sender, newOwner)
         IN /\ owner' = r.owner
            /\ last' = AdminCall("transferOwnership", sender, newOwner, r.reverted, r.reason)
    /\ UNCHANGED <<importedTokens, importerStats, nft, accounts, now, stack, balance,
                   client, rangeOwner>>

Withdraw ==
    /\ Idle
    /\ \E sender \in Actors :
         LET r == withdraw(owner, sender, balance)
         IN /\ balance' = r.balance
            /\ last' = AdminCall("withdraw", sender, "", r.reverted, r.reason)
    /\ UNCHANGED <<owner, importedTokens, importerStats, nft, accounts, now, stack,
                   client, rangeOwner>>

NextAdmin ==
    \/ AdminImport
    \/ AdminImportBatch
    \/ EnvValidate
    \/ ResetImportStatus
    \/ TransferOwnership
    \/ Withdraw
    \/ Deliver
    \/ Tick

SpecAdmin == Init /\ [][NextAdmin]_vars

(***************************************************************************)
(* Emergency clearing and re-import.  The owner imports records into nftA, *)
(* clears tags from the admitted set and imports again, while tokens of     *)
(* nftA are burnt.                                                          *)
(***************************************************************************)
ReimportRecord ==
    /\ Idle
    /\ Len(nft["nftA"].tokens) < MaxSupply
    /\ \E t \in Tags, out \in AdminOutcomes :
         LET r == importSingleToken(World, owner, "nftA", Base(t, ""), out)
         IN /\ Commit(r.st)
            /\ last' = Call("importSingleToken", owner, "nftA", <<Base(t, "")>>, Zero, Zero,
                            <<out>>, r)
    /\ UNCHANGED <<owner, now, stack, balance, client, rangeOwner>>

NextReimport ==
    \/ ReimportRecord
    \/ ResetImportStatus
    \/ EnvBurn
    \/ EnvValidate
    \/ Deliver

SpecReimport == Init /\ [][NextReimport]_vars

(***************************************************************************)
(* The legacy entry points.  importBatch takes the same ImportData records *)
(* as importBatchWithTBA, so a record may name a TBA source.               *)
(*                                                                         *)
(* Lines 198 and 320 call by name a function declared external (126, 274). *)
(* The pragma's compilers reject that call as written, so what the entry   *)
(* points do depends on how a build makes it compile: with the callee      *)
(* declared public the call is an internal jump that keeps msg.sender;     *)
(* written this.f(...), the form the contract uses at line 285, it is a    *)
(* message call whose msg.sender is the contract.  Each call draws one of  *)
(* the two.                                                                *)
(***************************************************************************)
\* The ways a build can reach the callee of lines 198 and 320.
ByNameCalls == {"internal", "external"}

\* msg.sender inside the callee when sender calls the legacy entry point.
CalleeSender(call, sender) == IF call = "external" THEN Self ELSE sender

LegacyRecords == {Base(t, "") : t \in Tags} \cup {Base("t2", "t1"), Base("t1", "t2")}

LegacyBatches == {<<d>> : d \in LegacyRecords} \cup {<<d, e>> : d \in LegacyRecords, e \in LegacyRecords}

LegacyImportSingleToken ==
    /\ Idle
    /\ \E sender \in Actors, c \in LegacyCalls, call \in ByNameCalls :
         \E out \in OutcomesFor(c) :
           LET r == importSingleToken(World, CalleeSender(call, sender), c.targetNFT, c.d, out)
           IN /\ Commit(r.st)
              /\ last' = Call("importSingleToken", sender, c.targetNFT, <<c.d>>,
                              Zero, Zero, <<out>>, r)
    /\ UNCHANGED <<owner, now, stack, balance, client, rangeOwner>>

LegacyImportBatch ==
    /\ Idle
    /\ \E sender \in Actors, targetNFT \in NFTs, b \in LegacyBatches, plan \in MintPlans,
          call \in ByNameCalls :
         LET r == importBatch(World, CalleeSender(call, sender), targetNFT, b, OutsOf(b, plan))
         IN /\ Commit(r.st)
            /\ last' = Call("importBatch", sender, targetNFT, b, Zero, Zero,
                            OutsOf(b, plan), r)
    /\ UNCHANGED <<owner, now, stack, balance, client, rangeOwner>>

NextLegacy ==
    \/ LegacyImportSingleToken
    \/ LegacyImportBatch
    \/ Deliver
    \/ Tick

SpecLegacy == Init /\ [][NextLegacy]_vars

(***************************************************************************)
(* The front end: the component ImportToBlockchain in its three files,     *)
(* src/frontend/src/components/ImportToBlockchain.tsx ("tsx"),             *)
(* src/unnamed/part_003 ("part_003") and src/unnamed/part_004              *)
(* ("part_004").  executeImport is an async function: each await ends a    *)
(* turn, and other transactions run between the turns.  client.pc is the   *)
(* await executeImport is suspended at, client.tx the transaction it       *)
(* sent, client.importResults the list last handed to setImportResults     *)
(* and onImportComplete, client.delivered whether the last run handed one  *)
(* over.  client.total, client.i and client.step are the locals of         *)
(* checkTBASourceToken and the position in testTBAComponents.  Wallet and  *)
(* provider answers, confirm() answers, the gas limit field and the        *)
(* registry's _importers flag are inputs.                                  *)
(***************************************************************************)
\* JSON_DATA_IMPORTER_ABI of each file: the functions the Contract object has.
JSON_DATA_IMPORTER_ABI ==
    [tsx |-> {"importSingleToken", "importBatch", "validateImportData", "isTokenImported",
              "getImportStats"},
     part_003 |-> {"importSingleToken", "importSingleTokenWithTBA", "importBatch",
                   "importBatchWithTBA", "validateImportData", "validateBatch",
                   "isTokenImported", "getImportStats"},
     part_004 |-> {"importSingleToken", "importBatch", "validateImportData",
                   "isTokenImported", "getImportStats"}]

\* The component types of struct ImportData in the importer.
ImportDataTypes == <<"string", "address", "address", "bool", "string", "uint16", "string">>

\* The component types of the imports tuple in each file's ABI: only part_003
\* declares the seventh component, tbaSourceToken.
ImportsTuple ==
    [tsx |-> <<"string", "address", "address", "bool", "string", "uint16">>,
     part_003 |-> <<"string", "address", "address", "bool", "string", "uint16", "string">>,
     part_004 |-> <<"string", "address", "address", "bool", "string", "uint16">>]

\* The functions that take the imports array.
BatchFunctions == {"importBatch", "importBatchWithTBA", "validateBatch"}

\* Whether the selector a file computes for op is one of the importer's: the
\* selector hashes the parameter types, so a tuple of other components names a
\* function the importer does not have.
SelectorMatches(file, op) == op \in BatchFunctions => ImportsTuple[file] = ImportDataTypes

\* An ImportedNFT of the loaded data: URI, owner and creator may be missing.
ImportedNFT(uri, holder, info, source) ==
    [tokenURI |-> uri, owner |-> holder, creator |-> "bob", isSBT |-> FALSE,
     originalTokenInfo |-> info, tbaSourceToken |-> source]

\* The arguments the front end builds for one selected record; a tuple without
\* the seventh component carries no TBA source token.
ClientRecord(n, currentAccount, file) ==
    [tokenURI |-> n.tokenURI,
     to |-> IF n.owner = "" THEN currentAccount ELSE n.owner,
     creator |-> IF n.creator = "" THEN currentAccount ELSE n.creator,
     isSBT |-> n.isSBT,
     originalTokenInfo |-> n.originalTokenInfo,
     royaltyRate |-> ClientRoyalty,
     tbaSourceToken |-> IF ImportsTuple[file] = ImportDataTypes THEN n.tbaSourceToken ELSE ""]

ClientImports(selectedNFTsList, currentAccount, file) ==
    [i \in 1..Len(selectedNFTsList) |-> ClientRecord(selectedNFTsList[i], currentAccount, file)]

ImportResult(n, success, newTokenId) ==
    [originalTokenInfo |-> n.originalTokenInfo, success |-> success, newTokenId |-> newTokenId]

\* results after selectedNFTsList.forEach(nft => results.push({..., success}))
ClientResults(selectedNFTsList, success) ==
    [i \in 1..Len(selectedNFTsList) |-> ImportResult(selectedNFTsList[i], success, 0)]

\* executeImport returns: its locals are gone.
Returned(c) == [c EXCEPT !.pc = "idle", !.k = 0, !.total = 0, !.i = 0, !.step = 0]

\* setImportResults(results); onImportComplete(results); setIsImporting(false)
Complete(c, results) ==
    [Returned(c) EXCEPT !.importResults = results, !.delivered = TRUE]

\* setIsImporting(false); return
Abandon(c) == [Returned(c) EXCEPT !.delivered = FALSE]

\* The catch around the import: every selected record is reported as failed.
Failed(c) == Complete(c, ClientResults(c.selected, FALSE))

\* The call contract[op](...): a function missing from the ABI throws into the
\* catch around the call; otherwise the transaction goes to the wallet.
CallContract(c, op, registry, implementation) ==
    IF op \notin JSON_DATA_IMPORTER_ABI[c.file]
    THEN Failed(c)
    ELSE [c EXCEPT !.pc = "send",
                   !.tx = [NoTx EXCEPT !.op = op,
                                       !.imports = ClientImports(c.selected, c.account, c.file),
                                       !.registry = registry,
                                       !.implementation = implementation]]

hasTBANFTs(selectedNFTsList) ==
    \E i \in 1..Len(selectedNFTsList) : selectedNFTsList[i].tbaSourceToken # ""

\* The first record after the k-th that has a TBA source token, or 0.
NextTBARecord(selectedNFTsList, k) ==
    IF \E i \in (k + 1)..Len(selectedNFTsList) : selectedNFTsList[i].tbaSourceToken # ""
    THEN CHOOSE i \in (k + 1)..Len(selectedNFTsList) :
           /\ selectedNFTsList[i].tbaSourceToken # ""
           /\ \A j \in (k + 1)..(i - 1) : selectedNFTsList[j].tbaSourceToken = ""
    ELSE 0

\* checkTBASourceToken(selected[k].tbaSourceToken) starts: it awaits totalSupply().
callCheckTBASourceToken(c, k) ==
    [c EXCEPT !.pc = "totalSupply", !.k = k, !.total = 0, !.i = 0]

\* part_003, the batch after the authorization check: the pre-check of the TBA
\* source tokens when there are any, the gas estimation otherwise.
BatchChecks(c, k) ==
    IF NextTBARecord(c.selected, k) # 0
    THEN callCheckTBASourceToken(c, NextTBARecord(c.selected, k))
    ELSE [c EXCEPT !.pc = "estimate", !.k = 0, !.total = 0, !.i = 0]

\* executeImport of the tsx file once the signer is there; confirmed is the
\* user's answer to confirm().
executeImportTsx(c, confirmed) ==
    IF Len(c.selected) = 1
    THEN CallContract(c, "importSingleTokenWithTBA", "erc6551", "impl")
    ELSE IF Len(c.selected) > ClientBatchLimit THEN Abandon(c)
    ELSE IF Len(c.selected) > LargeBatch /\ ~confirmed THEN Abandon(c)
    ELSE CallContract(c, "importBatchWithTBA", "erc6551", "impl")

\* part_003, the single import once txOptions is settled: the simple import,
\* or the check of the TBA source token first.
singleImport(c) ==
    IF c.selected[1].tbaSourceToken = ""
    THEN CallContract(c, "importSingleToken", Zero, Zero)
    ELSE callCheckTBASourceToken(c, 1)

\* executeImport of part_003 once the signer is there: a single import asks for
\* a gas estimate unless the gas limit field is filled.
executeImportPart003(c, confirmed, customGasLimit) ==
    IF Len(c.selected) = 1
    THEN IF customGasLimit THEN singleImport(c) ELSE [c EXCEPT !.pc = "estimateSingle"]
    ELSE IF Len(c.selected) > LargeBatchPart003 /\ ~confirmed THEN Abandon(c)
    ELSE [c EXCEPT !.pc = "auth"]

\* executeImport of part_004 once the signer is there: no limit, no question,
\* no check.
executeImportPart004(c) ==
    IF Len(c.selected) = 1
    THEN CallContract(c, "importSingleToken", Zero, Zero)
    ELSE CallContract(c, "importBatch", Zero, Zero)

\* The await of provider.getSigner() ends.  A rejection goes to the outer
\* catch: part_003 then returns, the other two files hand over the empty list.
getSigner(c, resolved, confirmed, customGasLimit) ==
    IF ~resolved
    THEN IF c.file = "part_003" THEN Abandon(c) ELSE Complete(c, <<>>)
    ELSE IF c.file = "tsx" THEN executeImportTsx(c, confirmed)
    ELSE IF c.file = "part_003" THEN executeImportPart003(c, confirmed, customGasLimit)
    ELSE executeImportPart004(c)

\* part_003: donatableNFT._importers(importerContractAddress) answered.
checkAuthorization(c, answer) ==
    IF answer = "unauthorized" THEN Abandon(c) ELSE BatchChecks(c, 0)

\* The reads of testTBAComponents, in order.
TBAComponentReads ==
    <<"getNetwork", "getCode(tbaRegistry)", "getCode(tbaImplementation)",
      "registry.account", "getCode(tbaAccount)">>

\* part_003: checkTBASourceToken of record k returned sourceTokenId (0 is
\* null).  A single import goes on to testTBAComponents, a batch to its next
\* record.
afterSourceCheck(c, sourceTokenId) ==
    IF sourceTokenId = 0 THEN Failed(c)
    ELSE IF Len(c.selected) = 1
    THEN [c EXCEPT !.pc = "components", !.step = 1, !.total = 0, !.i = 0]
    ELSE BatchChecks(c, c.k)

\* checkTBASourceToken, the loop head: for (i; i <= totalSupply; i++).
scanFrom(c, i) ==
    IF i > c.total THEN afterSourceCheck(c, 0)
    ELSE [c EXCEPT !.pc = "originalTokenInfo", !.i = i]

\* checkTBASourceToken: nftContract.totalSupply() answered.
readTotalSupply(c, reg) ==
    IF ~totalSupply(reg).ok THEN afterSourceCheck(c, 0)
    ELSE scanFrom([c EXCEPT !.total = totalSupply(reg).value], 1)

\* checkTBASourceToken: nftContract._originalTokenInfo(i) answered; a token
\* that cannot be read is skipped.
readOriginalTokenInfo(c, reg) ==
    IF /\ originalTokenInfo(reg, c.i).ok
       /\ originalTokenInfo(reg, c.i).value = c.selected[c.k].tbaSourceToken
    THEN [c EXCEPT !.pc = "ownerOf"]
    ELSE scanFrom(c, c.i + 1)

\* checkTBASourceToken: nftContract.ownerOf(i) answered or failed; return i.
readOwnerOf(c) == afterSourceCheck(c, c.i)

\* testTBAComponents: its read number c.step answered; ok is whether the read
\* succeeded and, for the registry and the implementation, found code.
testTBAComponents(c, ok) ==
    IF ~ok THEN Failed(c)
    ELSE IF c.step < Len(TBAComponentReads) THEN [c EXCEPT !.step = c.step + 1]
    ELSE CallContract([c EXCEPT !.step = 0], "importSingleTokenWithTBA", "erc6551", "impl")

\* part_003: importBatchWithTBA.estimateGas answered.
afterEstimateGas(c, reverted) ==
    IF reverted THEN Failed(c)
    ELSE CallContract(c, "importBatchWithTBA",
                      IF hasTBANFTs(c.selected) THEN "erc6551" ELSE Zero,
                      IF hasTBANFTs(c.selected) THEN "impl" ELSE Zero)

\* The wallet answers the transaction request.
sendTransaction(c, accepted) ==
    IF accepted THEN [c EXCEPT !.pc = "wait"] ELSE Failed(c)

\* The importer executes the transaction tx that a component of file sent for
\* sender, on the storage st.  The importer has no fallback: a selector that is
\* none of its functions' reverts without a reason.
ExecuteTx(st, file, sender, targetNFT, tx, outs) ==
    IF ~SelectorMatches(file, tx.op) THEN RevertBare(st)
    ELSE IF tx.op = "importSingleToken"
    THEN importSingleToken(st, sender, targetNFT, tx.imports[1], outs[1])
    ELSE IF tx.op = "importSingleTokenWithTBA"
    THEN importSingleTokenWithTBA(st, sender, targetNFT, tx.imports[1], tx.registry,
                                  tx.implementation, outs[1])
    ELSE IF tx.op = "importBatch"
    THEN importBatch(st, sender, targetNFT, tx.imports, outs)
    ELSE importBatchWithTBA(st, sender, targetNFT, tx.imports, tx.registry,
                            tx.implementation, outs)

\* await tx.wait() ends: it throws for a reverted transaction.  A single import
\* reads the new id from the JSONDataImported event; a batch marks every
\* selected record successful.
afterWait(c) ==
    IF c.tx.reverted THEN Failed(c)
    ELSE IF Len(c.selected) = 1
    THEN Complete(c, <<ImportResult(c.selected[1], TRUE, c.tx.ret[1])>>)
    ELSE Complete(c, ClientResults(c.selected, TRUE))

\* A selection of n records that carry no token URI.
LargeSelection(n) ==
    [i \in 1..n |-> ImportedNFT("", "", "n" \o ToString(i), "")]

\* The selections: one record, two records, and the large ones around the
\* limits of the files.
ClientSelections ==
    {<<ImportedNFT("ipfs://x", o, "t1", "")>> : o \in {"", "alice"}}
    \cup {<<ImportedNFT("ipfs://x", "alice", "t2", "t1")>>,
          <<ImportedNFT("ipfs://x", "alice", "t1", ""), ImportedNFT("ipfs://x", "alice", "t2", "t1")>>,
          <<ImportedNFT("ipfs://x", "alice", "t1", ""), ImportedNFT("", "alice", "t2", "")>>}
    \cup {LargeSelection(n) : n \in {LargeBatchPart003 + 1, LargeBatch + 1, ClientBatchLimit + 1}}

\* The tokens the selection can mint.
Mintable(selectedNFTsList) ==
    Cardinality({i \in 1..Len(selectedNFTsList) : selectedNFTsList[i].tokenURI # ""})

\* The component is built from any of the files.
InitClient ==
    /\ owner = Deployer
    /\ importedTokens = {}
    /\ importerStats = [a \in Senders |-> ImportStats]
    /\ nft = InitialRegistries
    /\ accounts = {}
    /\ now = 1
    /\ last = NoCall
    /\ stack = <<>>
    /\ balance = 0
    /\ client \in {[ClientIdle EXCEPT !.file = f] : f \in DOMAIN JSON_DATA_IMPORTER_ABI}
    /\ rangeOwner = RangeOwners

\* The Import button: disabled while an import is running.
ExecuteImport ==
    /\ client.pc = "idle"
    /\ \E currentAccount \in {"alice"}, targetNFT \in {"nftA"}, sel \in ClientSelections :
         /\ Len(nft[targetNFT].tokens) + Mintable(sel) <= MaxSupply
         /\ client' = [client EXCEPT !.pc = "signer", !.account = currentAccount,
                                     !.targetNFT = targetNFT, !.selected = sel, !.k = 0,
                                     !.total = 0, !.i = 0, !.step = 0, !.tx = NoTx]
    /\ UNCHANGED <<owner, importedTokens, importerStats, nft, accounts, now, last, stack,
                   balance, rangeOwner>>

GetSigner ==
    /\ client.pc = "signer"
    /\ \E resolved \in BOOLEAN, confirmed \in BOOLEAN, customGasLimit \in BOOLEAN :
         client' = getSigner(client, resolved, confirmed, customGasLimit)
    /\ UNCHANGED <<owner, importedTokens, importerStats, nft, accounts, now, last, stack,
                   balance, rangeOwner>>

\* part_003, single import: the await of estimateGas ends.  Its answer only
\* sets txOptions.gasLimit and its failure is caught on the spot.
EstimateGasSingle ==
    /\ client.pc = "estimateSingle"
    /\ client' = singleImport(client)
    /\ UNCHANGED <<owner, importedTokens, importerStats, nft, accounts, now, last, stack,
                   balance, rangeOwner>>

CheckAuthorization ==
    /\ client.pc = "auth"
    /\ \E answer \in {"authorized", "unauthorized", "unreadable"} :
         client' = checkAuthorization(client, answer)
    /\ UNCHANGED <<owner, importedTokens, importerStats, nft, accounts, now, last, stack,
                   balance, rangeOwner>>

ReadTotalSupply ==
    /\ client.pc = "totalSupply"
    /\ client' = readTotalSupply(client, nft[client.targetNFT])
    /\ UNCHANGED <<owner, importedTokens, importerStats, nft, accounts, now, last, stack,
                   balance, rangeOwner>>

ReadOriginalTokenInfo ==
    /\ client.pc = "originalTokenInfo"
    /\ client' = readOriginalTokenInfo(client, nft[client.targetNFT])
    /\ UNCHANGED <<owner, importedTokens, importerStats, nft, accounts, now, last, stack,
                   balance, rangeOwner>>

ReadOwnerOf ==
    /\ client.pc = "ownerOf"
    /\ client' = readOwnerOf(client)
    /\ UNCHANGED <<owner, importedTokens, importerStats, nft, accounts, now, last, stack,
                   balance, rangeOwner>>

TestTBAComponents ==
    /\ client.pc = "components"
    /\ \E ok \in BOOLEAN : client' = testTBAComponents(client, ok)
    /\ UNCHANGED <<owner, importedTokens, importerStats, nft, accounts, now, last, stack,
                   balance, rangeOwner>>

\* The mint outcomes of a transaction's records under a plan.
ClientOuts(imports, plan) ==
    [i \in 1..Len(imports) |->
        IF imports[i].originalTokenInfo \in Tags THEN plan[imports[i].originalTokenInfo]
        ELSE MintOk]

EstimateGas ==
    /\ client.pc = "estimate"
    /\ \E plan \in MintPlans :
         client' = afterEstimateGas(client,
                       importBatchWithTBA(World, client.account, client.targetNFT,
                           ClientImports(client.selected, client.account, client.file),
                           IF hasTBANFTs(client.selected) THEN "erc6551" ELSE Zero,
                           IF hasTBANFTs(client.selected) THEN "impl" ELSE Zero,
                           ClientOuts(ClientImports(client.selected, client.account, client.file),
                                      plan)).reverted)
    /\ UNCHANGED <<owner, importedTokens, importerStats, nft, accounts, now, last, stack,
                   balance, rangeOwner>>

SendTransaction ==
    /\ client.pc = "send"
    /\ \E accepted \in BOOLEAN : client' = sendTransaction(client, accepted)
    /\ UNCHANGED <<owner, importedTokens, importerStats, nft, accounts, now, last, stack,
                   balance, rangeOwner>>

\* The result r of the transaction becomes the storage and the receipt.
Mined(outs, r) ==
    /\ Commit(r.st)
    /\ last' = Call(client.tx.op, client.account, client.targetNFT, client.tx.imports,
                    client.tx.registry, client.tx.implementation, outs, r)
    /\ client' = [client EXCEPT !.tx.mined = TRUE, !.tx.reverted = r.reverted,
                                !.tx.ret = r.ret]

\* The pending transaction of the front end is mined.
Mine ==
    /\ Idle
    /\ client.pc = "wait"
    /\ ~client.tx.mined
    /\ \E plan \in MintPlans :
         Mined(ClientOuts(client.tx.imports, plan),
               ExecuteTx(World, client.file, client.account, client.targetNFT, client.tx,
                         ClientOuts(client.tx.imports, plan)))
    /\ UNCHANGED <<owner, now, stack, balance, rangeOwner>>

Receipt ==
    /\ client.pc = "wait"
    /\ client.tx.mined
    /\ client' = afterWait(client)
    /\ UNCHANGED <<owner, importedTokens, importerStats, nft, accounts, now, last, stack,
                   balance, rangeOwner>>

\* Another user's transaction mints a token of origin t into nftA.
OtherMint ==
    /\ Idle
    /\ Len(nft["nftA"].tokens) + 1
         + (IF client.pc = "idle" THEN 0 ELSE Mintable(client.selected)) <= MaxSupply
    /\ \E t \in Tags :
         nft' = [nft EXCEPT !["nftA"].tokens = Append(@, [ForeignToken EXCEPT !.info = t])]
    /\ UNCHANGED <<owner, importedTokens, importerStats, accounts, now, last, stack,
                   balance, client, rangeOwner>>

NextClient ==
    \/ ExecuteImport
    \/ GetSigner
    \/ EstimateGasSingle
    \/ CheckAuthorization
    \/ ReadTotalSupply
    \/ ReadOriginalTokenInfo
    \/ ReadOwnerOf
    \/ TestTBAComponents
    \/ EstimateGas
    \/ SendTransaction
    \/ Mine
    \/ Receipt
    \/ OtherMint
    \/ Deliver

SpecClient == InitClient /\ [][NextClient]_vars

(***************************************************************************)
(* The range importers (DonatableNFTImporter and DonatableTBAImporter):    *)
(* importTokens walks the ids startId..endId of a source collection and    *)
(* mints each Arweave token into the target registry with the origin tag   *)
(* "<sourceCA>/<tokenId>".  rangeOwner holds the owner of each contract.   *)
(* A URI is the sequence of its "/"-separated parts.  The debug events of  *)
(* DonatableTBAImporter are tuples <<name, argument, argument, ...>>.      *)
(***************************************************************************)
RangeRoyalty == 10

ArweavePrefix == <<"https:", "", "arweave.net">>

\* isArweaveURI: the URI starts with "https://arweave.net/".
isArweaveURI(uri) ==
    /\ Len(uri) > Len(ArweavePrefix)
    /\ SubSeq(uri, 1, Len(ArweavePrefix)) = ArweavePrefix

DecimalDigits == <<"0", "1", "2", "3", "4", "5", "6", "7", "8", "9">>

RECURSIVE uintToString(_)
uintToString(i) ==
    IF i < Len(DecimalDigits) THEN <<DecimalDigits[i + 1]>>
    ELSE uintToString(i \div Len(DecimalDigits)) \o <<DecimalDigits[(i % Len(DecimalDigits)) + 1]>>

addressToString(addr) == <<"0x", addr>>

\* abi.encodePacked(addressToString(sourceCA), "/", uintToString(tokenId))
OriginalInfo(sourceCA, tokenId) ==
    addressToString(sourceCA) \o <<"/">> \o uintToString(tokenId)

\* The account that owns source token 2; its code is deployed.
SourceTBA == account("impl", "other", 1, Salt)

\* The source collection: token 1 of alice and token 2 of an account, both on
\* Arweave; token 3 is burnt; token 4 is not on Arweave.
SourceCollection ==
    [creator |-> EOA("bob"),
     tokens |-> << [ok |-> TRUE, owner |-> EOA("alice"),
                    uri |-> <<"https:", "", "arweave.net", "a">>],
                   [ok |-> TRUE, owner |-> SourceTBA,
                    uri |-> <<"https:", "", "arweave.net", "b">>],
                   [ok |-> FALSE, owner |-> EOA(Zero), uri |-> <<>>],
                   [ok |-> TRUE, owner |-> EOA("alice"),
                    uri |-> <<"ipfs:", "", "x">>] >>]

Sources == [src |-> SourceCollection]

_lastTokenId(source) == Len(source.tokens)

sourceOwnerOf(source, tokenId) ==
    IF tokenId \in 1..Len(source.tokens) /\ source.tokens[tokenId].ok
    THEN [ok |-> TRUE, value |-> source.tokens[tokenId].owner]
    ELSE [ok |-> FALSE, value |-> EOA(Zero)]

\* isTBA: the address has code.
isTBA(st, a) == a \in st.accounts

\* The call goes on with one more event in its log.
Emit(acc, e) == [acc EXCEPT !.events = Append(@, e)]

\* target.mintImported(...) by the importer minter, outside any try: a refusal
\* of the registry ends the call with the registry's revert data.
RangeMint(acc, minter, targetNFT, to, uri, sbtFlag, creator, originalInfo, out) ==
    IF out.kind = "error" THEN Revert(acc.st, out.reason)
    ELSE IF out.kind # "ok" THEN RevertBare(acc.st)
    ELSE [acc EXCEPT !.st.nft[targetNFT] =
                       mintImported(@, to, uri, RangeRoyalty, sbtFlag, creator,
                                    originalInfo, minter).reg]

\* DonatableNFTImporter._importSingleToken
_importSingleToken(acc, targetNFT, sourceCA, tokenId, sbtFlag, isOwnerType, out) ==
    IF ~sourceOwnerOf(Sources[sourceCA], tokenId).ok THEN acc
    ELSE IF ~isArweaveURI(Sources[sourceCA].tokens[tokenId].uri) THEN acc
    ELSE RangeMint(acc, NFTImporter, targetNFT,
                   sourceOwnerOf(Sources[sourceCA], tokenId).value,
                   Sources[sourceCA].tokens[tokenId].uri, sbtFlag,
                   IF isOwnerType THEN sourceOwnerOf(Sources[sourceCA], tokenId).value
                                  ELSE Sources[sourceCA].creator,
                   OriginalInfo(sourceCA, tokenId), out)

RECURSIVE NFTRange(_, _, _, _, _, _, _, _)
NFTRange(acc, targetNFT, sourceCA, i, endId, sbtFlag, isOwnerType, out) ==
    IF i > endId \/ acc.reverted THEN acc
    ELSE NFTRange(_importSingleToken(acc, targetNFT, sourceCA, i, sbtFlag, isOwnerType, out),
                  targetNFT, sourceCA, i + 1, endId, sbtFlag, isOwnerType, out)

\* DonatableNFTImporter.importTokens, own being the contract's owner
importTokens(st, own, sender, targetNFT, sourceCA, importType, sbtFlag, startId, endId, out) ==
    IF ~onlyOwner(own, sender) THEN Revert(st, "Owner only")
    ELSE IF importType \notin {"owner", "creator"} THEN Revert(st, "Invalid import type")
    ELSE IF ~(endId >= startId) THEN Revert(st, "Invalid ID range")
    ELSE IF ~(endId <= _lastTokenId(Sources[sourceCA]))
    THEN Revert(st, "End ID exceeds last token")
    ELSE CallFrame(st, NFTRange(Return(st, <<>>, <<>>), targetNFT, sourceCA, startId, endId,
                                sbtFlag, importType = "owner", out))

\* The scan of findTokenByOriginalInfo: the first readable token of i..total
\* storing lookupKey, or 0.
RECURSIVE ScanOriginalInfo(_, _, _, _)
ScanOriginalInfo(reg, i, total, lookupKey) ==
    IF i > total THEN 0
    ELSE IF originalTokenInfo(reg, i).ok /\ originalTokenInfo(reg, i).value = lookupKey THEN i
    ELSE ScanOriginalInfo(reg, i + 1, total, lookupKey)

\* findTokenByOriginalInfo: target.totalSupply() is called outside any try, so
\* a registry whose totalSupply fails makes the call fail (ok = FALSE).
findTokenByOriginalInfo(reg, lookupKey) ==
    IF ~totalSupply(reg).ok THEN [ok |-> FALSE, value |-> 0]
    ELSE [ok |-> TRUE, value |-> ScanOriginalInfo(reg, 1, totalSupply(reg).value, lookupKey)]

\* DonatableTBAImporter._mintToTBA: target.ownerOf is called outside any try.
_mintToTBA(acc, targetNFT, donatableTokenId, uri, sourceCA, sourceTokenId, sbtFlag, implementation, salt, out) ==
    LET tba == createAccount(acc.st, implementation, targetNFT, donatableTokenId, salt)
        minted == RangeMint(Emit([acc EXCEPT !.st = tba.st],
                                 <<"TBACreated", donatableTokenId, tba.addr>>),
                            TBAImporter, targetNFT, tba.addr, uri, sbtFlag,
                            acc.st.nft[targetNFT].tokens[donatableTokenId].to,
                            OriginalInfo(sourceCA, sourceTokenId), out)
    IN IF ~(donatableTokenId \in 1..Len(acc.st.nft[targetNFT].tokens)
            /\ acc.st.nft[targetNFT].tokens[donatableTokenId].ok)
       THEN RevertBare(acc.st)
       ELSE IF minted.reverted THEN minted
       ELSE Emit(minted, <<"MintCompleted", tba.addr, sourceTokenId>>)

\* DonatableTBAImporter._handleArweaveToken
_handleArweaveToken(acc, targetNFT, sourceCA, tokenId, uri, sbtFlag, implementation, salt, out) ==
    LET found == findTokenByOriginalInfo(acc.st.nft[targetNFT], OriginalInfo(sourceCA, tokenId))
        logged == Emit(acc, <<"DonatableTokenFound", tokenId, found.value>>)
    IN IF ~found.ok THEN RevertBare(acc.st)
       ELSE IF found.value > 0
       THEN _mintToTBA(logged, targetNFT, found.value, uri, sourceCA, tokenId, sbtFlag,
                       implementation, salt, out)
       ELSE logged

\* DonatableTBAImporter._processSingleToken
_processSingleToken(acc, targetNFT, sourceCA, tokenId, sbtFlag, implementation, salt, out) ==
    LET tokenOwner == sourceOwnerOf(Sources[sourceCA], tokenId)
        logged == Emit(acc, <<"TokenProcessed", tokenId, tokenOwner.value,
                              isTBA(acc.st, tokenOwner.value)>>)
    IN IF ~tokenOwner.ok THEN acc
       ELSE IF ~isTBA(acc.st, tokenOwner.value) THEN logged
       ELSE IF ~isArweaveURI(Sources[sourceCA].tokens[tokenId].uri) THEN logged
       ELSE _handleArweaveToken(
                Emit(logged, <<"ArweaveURIFound", tokenId, Sources[sourceCA].tokens[tokenId].uri>>),
                targetNFT, sourceCA, tokenId, Sources[sourceCA].tokens[tokenId].uri, sbtFlag,
                implementation, salt, out)

RECURSIVE TBARange(_, _, _, _, _, _, _, _, _)
TBARange(acc, targetNFT, sourceCA, i, endId, sbtFlag, implementation, salt, out) ==
    IF i > endId \/ acc.reverted THEN acc
    ELSE TBARange(_processSingleToken(acc, targetNFT, sourceCA, i, sbtFlag,
                                      implementation, salt, out),
                  targetNFT, sourceCA, i + 1, endId, sbtFlag, implementation, salt, out)

\* DonatableTBAImporter.importTokens, own being the contract's owner.  The
\* source's _lastTokenId is read after the range check.
importTokensTBA(st, own, sender, targetNFT, sourceCA, sbtFlag, startId, endId, implementation, salt, out) ==
    IF ~onlyOwner(own, sender) THEN Revert(st, "Owner only")
    ELSE IF ~(endId >= startId) THEN Revert(st, "Invalid ID range")
    ELSE IF ~(endId <= _lastTokenId(Sources[sourceCA]))
    THEN Revert(st, "End ID exceeds last token")
    ELSE CallFrame(st, TBARange(Return(st, <<>>, <<>>), targetNFT, sourceCA, startId, endId,
                                sbtFlag, implementation, salt, out))

\* DonatableTBAImporter.createTBAForToken
createTBAForToken(st, own, sender, implementation, tokenContract, tokenId, salt) ==
    IF ~onlyOwner(own, sender) THEN Revert(st, "Owner only")
    ELSE Return(createAccount(st, implementation, tokenContract, tokenId, salt).st,
                <<createAccount(st, implementation, tokenContract, tokenId, salt).addr>>, <<>>)

\* DonatableTBAImporter.mintToSpecificTBA
mintToSpecificTBA(st, own, sender, donatableNFT, tbaAddress, uri, sbtFlag, creator, originalInfo, out) ==
    IF ~onlyOwner(own, sender) THEN Revert(st, "Owner only")
    ELSE RangeMint(Return(st, <<>>, <<>>), TBAImporter, donatableNFT, tbaAddress, uri,
                   sbtFlag, creator, originalInfo, out)

\* The deployed state: the registries as in Init, nftA's totalSupply readable or
\* not, and the code of SourceTBA.
InitRange ==
    /\ owner = Deployer
    /\ importedTokens = {}
    /\ importerStats = [a \in Senders |-> ImportStats]
    /\ nft \in {[InitialRegistries EXCEPT !["nftA"].supplyOk = b] : b \in BOOLEAN}
    /\ accounts = {SourceTBA}
    /\ now = 1
    /\ last = NoCall
    /\ stack = <<>>
    /\ balance = 0
    /\ client = ClientIdle
    /\ rangeOwner = RangeOwners

RangeTargets == {"nftA"}

ImportTypes == {"owner", "creator", "minter"}

RangeIds == 0..(_lastTokenId(SourceCollection) + 1)

\* The id ranges: one id or two, and the reversed range.
Ranges ==
    {p \in RangeIds \X RangeIds : p[2] - p[1] \in {0 - 1, 0, 1}}

\* The mint outcomes worth drawing for a call: one when the call mints nothing.
RangeOutcomesFor(st, r) == IF r.reverted \/ r.st.nft = st.nft THEN {MintOk} ELSE MintOutcomes

\* The result r of a transaction sent to a range importer.
RangeCall(op, sender, targetNFT, arg, ids, r) ==
    [NoCall EXCEPT !.op = op, !.sender = sender, !.targetNFT = targetNFT, !.arg = arg,
                   !.imports = ids, !.reverted = r.reverted, !.hasReason = r.hasReason,
                   !.reason = r.reason, !.ret = r.ret, !.events = r.events]

ImportTokens ==
    /\ Idle
    /\ \E sender \in Actors, targetNFT \in RangeTargets, sourceCA \in DOMAIN Sources,
          importType \in ImportTypes, ids \in Ranges :
         \E out \in RangeOutcomesFor(World, importTokens(World, rangeOwner[NFTImporter], sender,
                       targetNFT, sourceCA, importType, FALSE, ids[1], ids[2], MintOk)) :
           LET r == importTokens(World, rangeOwner[NFTImporter], sender, targetNFT, sourceCA,
                                 importType, FALSE, ids[1], ids[2], out)
           IN /\ Len(r.st.nft[targetNFT].tokens) <= MaxRangeSupply
              /\ Commit(r.st)
              /\ last' = RangeCall("importTokens", sender, targetNFT, importType, ids, r)
    /\ UNCHANGED <<owner, now, stack, balance, client, rangeOwner>>

ImportTokensTBA ==
    /\ Idle
    /\ \E sender \in Actors, targetNFT \in RangeTargets, sourceCA \in DOMAIN Sources,
          ids \in Ranges :
         \E out \in RangeOutcomesFor(World, importTokensTBA(World, rangeOwner[TBAImporter], sender,
                       targetNFT, sourceCA, FALSE, ids[1], ids[2], "impl", Salt, MintOk)) :
           LET r == importTokensTBA(World, rangeOwner[TBAImporter], sender, targetNFT, sourceCA,
                                    FALSE, ids[1], ids[2], "impl", Salt, out)
           IN /\ Len(r.st.nft[targetNFT].tokens) <= MaxRangeSupply
              /\ Commit(r.st)
              /\ last' = RangeCall("importTokensTBA", sender, targetNFT, "", ids, r)
    /\ UNCHANGED <<owner, now, stack, balance, client, rangeOwner>>

CreateTBAForToken ==
    /\ Idle
    /\ \E sender \in Actors, tokenContract \in RangeTargets :
         LET r == createTBAForToken(World, rangeOwner[TBAImporter], sender, "impl",
                                    tokenContract, 1, Salt)
         IN /\ Commit(r.st)
            /\ last' = RangeCall("createTBAForToken", sender, tokenContract, "", <<1>>, r)
    /\ UNCHANGED <<owner, now, stack, balance, client, rangeOwner>>

MintToSpecificTBA ==
    /\ Idle
    /\ \E sender \in Actors, donatableNFT \in RangeTargets, out \in MintOutcomes :
         LET r == mintToSpecificTBA(World, rangeOwner[TBAImporter], sender, donatableNFT,
                                    account("impl", donatableNFT, 1, Salt),
                                    SourceCollection.tokens[2].uri, FALSE, EOA("bob"),
                                    OriginalInfo("src", 2), out)
         IN /\ Len(r.st.nft[donatableNFT].tokens) <= MaxRangeSupply
            /\ Commit(r.st)
            /\ last' = RangeCall("mintToSpecificTBA", sender, donatableNFT, "", <<2>>, r)
    /\ UNCHANGED <<owner, now, stack, balance, client, rangeOwner>>

\* transferOwnership of either range importer (the code of both is that of
\* JSONDataImporter.transferOwnership).
RangeTransferOwnership ==
    /\ Idle
    /\ \E c \in DOMAIN rangeOwner, sender \in Actors, newOwner \in Actors \cup {Zero} :
         LET r == transferOwnership(rangeOwner[c], sender, newOwner)
         IN /\ rangeOwner' = [rangeOwner EXCEPT ![c] = r.owner]
            /\ last' = [AdminCall("transferOwnership", sender, newOwner, r.reverted, r.reason)
                          EXCEPT !.targetNFT = c]
    /\ UNCHANGED <<owner, importedTokens, importerStats, nft, accounts, now, stack, balance,
                   client>>

NextRange ==
    \/ ImportTokens
    \/ ImportTokensTBA
    \/ CreateTBAForToken
    \/ MintToSpecificTBA
    \/ RangeTransferOwnership
    \/ Deliver

SpecRange == InitRange /\ [][NextRange]_vars

(***************************************************************************)
(* Vocabulary of the properties.                                           *)
(***************************************************************************)
\* The destination tokens of origin t that the importer minted.
Minted(t) ==
    {p \in UNION {{<<n, i>> : i \in 1..Len(nft[n].tokens)} : n \in NFTs} :
        nft[p[1]].tokens[p[2]].info = t /\ nft[p[1]].tokens[p[2]].minter = Self}

SingleOps == {"importSingleToken", "importSingleTokenWithTBA"}

BatchOps == {"importBatch", "importBatchWithTBA"}

\* This step is a whole import transaction; last' holds its arguments and result.
ImportStep == last = NoCall /\ stack = <<>> /\ last' # NoCall

\* Record i of the call c did not succeed.
RecordFailed(c, i) == c.reverted \/ c.ret[i] = 0

\* C1: once an import of origin tag t has succeeded (t is admitted exactly when
\* the importer has minted a token of origin t), t stays admitted, every record
\* carrying t in a later single or batch import fails, no further token of
\* origin t is minted, and within one batch two records of one tag do not both
\* succeed: at most one destination token is ever minted per origin tag.
C1_AtMostOnceAdmission ==
    /\ [](\A t \in Tags : /\ t \in importedTokens <=> Minted(t) # {}
                          /\ Cardinality(Minted(t)) <= 1)
    /\ [][\A t \in Tags :
            /\ t \in importedTokens =>
                 /\ t \in importedTokens'
                 /\ Minted(t)' = Minted(t)
                 /\ ImportStep =>
                      \A i \in 1..Len(last'.imports) :
                         last'.imports[i].originalTokenInfo = t => RecordFailed(last', i)
            /\ ImportStep =>
                 \A i, j \in 1..Len(last'.imports) :
                    (/\ i < j
                     /\ last'.imports[i].originalTokenInfo = t
                     /\ last'.imports[j].originalTokenInfo = t
                     /\ ~RecordFailed(last', i)) => RecordFailed(last', j)]_vars

\* A second import of an admitted tag, sent to the other registry, was rejected.
C1_Witness ==
    /\ last.op \in SingleOps
    /\ last.reverted /\ last.reason = "Token already imported"
    /\ Minted(last.imports[1].originalTokenInfo) # {}
    /\ \A p \in Minted(last.imports[1].originalTokenInfo) : p[1] # last.targetNFT

\* C2: when imports of one origin tag overlap (the second starts while the
\* first waits for its mint call to settle, after the first passed its duplicate
\* checks and before it marked the tag), they do not both succeed: once the
\* outermost import has finished, no origin tag has two importer-minted tokens.
C2_OverlappingImportsNotBothSucceed ==
    stack = <<>> => \A t \in Tags : Cardinality(Minted(t)) <= 1

\* Two imports of one origin tag are in progress at once.
C2_Witness ==
    /\ Len(stack) = 2
    /\ stack[1].d.originalTokenInfo = stack[2].d.originalTokenInfo

\* The batch imports with record k taken out (and its mint outcome with it).
Without(seq, k) == [i \in 1..(Len(seq) - 1) |-> IF i < k THEN seq[i] ELSE seq[i + 1]]

Succeeded(c) == {i \in 1..Len(c.ret) : c.ret[i] # 0}

\* Exactly record k of the batch fails validation before the call; the others
\* are valid and carry pairwise distinct origin tags, and the registry accepts
\* every mint.
OnlyInvalid(st, targetNFT, imports, outs, k) ==
    /\ ~validateImportData(st, targetNFT, imports[k]).isValid
    /\ \A i \in 1..Len(imports) :
          /\ i # k => validateImportData(st, targetNFT, imports[i]).isValid
          /\ outs[i] = MintOk
    /\ \A i, j \in 1..Len(imports) \ {k} :
          i # j => imports[i].originalTokenInfo # imports[j].originalTokenInfo

\* C3: batch isolation.  For every importBatch call of N records (1 <= N <=
\* MaxBatch) in which exactly record k fails validation and the others are valid
\* and distinct: the call returns, with N results; result k is 0; the other
\* results, the registries, the admitted tags and the stats are those of the
\* same call without record k; and the completion event counts N-1 successes
\* and one failure.
C3_BatchIsolation ==
    [][(ImportStep /\ last'.op = "importBatch") =>
        \A k \in 1..Len(last'.imports) :
          (Len(last'.imports) <= MaxBatch
           /\ OnlyInvalid(World, last'.targetNFT, last'.imports, last'.outs, k)) =>
            LET n == Len(last'.imports)
                alone == importBatch(World, last'.sender, last'.targetNFT,
                                     Without(last'.imports, k), Without(last'.outs, k))
            IN /\ ~last'.reverted
               /\ Len(last'.ret) = n
               /\ last'.ret[k] = 0
               /\ \A i \in 1..n : i # k => last'.ret[i] # 0
               /\ Cardinality(Succeeded(last')) = n - 1
               /\ last'.events[Len(last'.events)].name = "BatchImportCompleted"
               /\ last'.events[Len(last'.events)].a = n - 1
               /\ last'.events[Len(last'.events)].b = 1
               /\ n > 1 => /\ Without(last'.ret, k) = alone.ret
                           /\ nft' = alone.st.nft
                           /\ importedTokens' = alone.st.importedTokens
                           /\ importerStats' = alone.st.importerStats
               /\ n = 1 => /\ nft' = nft
                           /\ importedTokens' = importedTokens
                           /\ importerStats' = importerStats]_vars

\* A batch of three records returned with the middle one failed on validation
\* and the two around it minted.
C3_Witness ==
    /\ last.op = "importBatch"
    /\ ~last.reverted
    /\ Len(last.imports) = 3
    /\ last.imports[2].to = Zero
    /\ last.ret[1] # 0 /\ last.ret[2] = 0 /\ last.ret[3] # 0

\* C4: a destination mint failure never aborts a batch: whatever way the mint
\* call of a record fails (with a reason string or without one), a batch of
\* 1..MaxBatch records returns normally with one result per record, and the
\* result of a record whose mint failed is 0.
C4_MintFailureNeverAbortsBatch ==
    (last.op \in BatchOps /\ Len(last.imports) \in 1..MaxBatch) =>
        /\ ~last.reverted
        /\ Len(last.ret) = Len(last.imports)
        /\ \A i \in 1..Len(last.imports) : last.outs[i] # MintOk => last.ret[i] = 0

\* A batch in which a mint failed with a reason string went on and returned.
C4_Witness ==
    /\ last.op \in BatchOps
    /\ ~last.reverted
    /\ \E i \in 1..Len(last.imports) :
          /\ last.outs[i] = MintError
          /\ last.ret[i] = 0
          /\ i < Len(last.imports) /\ last.ret[i + 1] # 0
          /\ last.events[Len(last.events)].b = 1

\* C5: stats are credited to the caller: after a call in which s records
\* succeeded, the caller's totalImported is s higher, its lastImportTime is the
\* time of the call when s > 0, and no other account's stats have changed.
C5_StatsCreditedToCaller ==
    [][(ImportStep /\ ~last'.reverted) =>
        LET s == Cardinality(Succeeded(last'))
            A == last'.sender
        IN /\ importerStats'[A].totalImported = importerStats[A].totalImported + s
           /\ s > 0 => importerStats'[A].lastImportTime = now
           /\ \A a \in Senders \ {A} : importerStats'[a] = importerStats[a]]_vars

\* After a batch by bob in which a record succeeded, bob has no import counted.
C5_Witness ==
    /\ last.op = "importBatch"
    /\ last.sender = "bob"
    /\ ~last.reverted
    /\ Succeeded(last) # {}
    /\ importerStats["bob"].totalImported = 0
    /\ importerStats[Self].totalImported > 0

\* The record's own fields pass the input checks.
ValidRecord(targetNFT, d) ==
    /\ targetNFT # Zero
    /\ d.tokenURI # ""
    /\ d.to # Zero
    /\ d.creator # Zero
    /\ d.royaltyRate <= MaxRoyalty

\* The call c is a single import of the record c.imports[1].
SingleImportStep == ImportStep /\ last'.op \in SingleOps

\* C6 as amended: when a valid record's origin tag is already admitted (its
\* import has succeeded) and any actor, the first importer included, imports
\* it again, the call fails with "Token already imported", no token is minted,
\* the admitted set is unchanged, and the actor's totalFailed is unchanged.
C6_DuplicateRejectedStatsUnchanged ==
    [][(/\ SingleImportStep
        /\ ValidRecord(last'.targetNFT, last'.imports[1])
        /\ last'.imports[1].originalTokenInfo \in importedTokens) =>
        /\ last'.reverted
        /\ last'.reason = "Token already imported"
        /\ nft' = nft
        /\ importedTokens' = importedTokens
        /\ importerStats'[last'.sender].totalFailed =
             importerStats[last'.sender].totalFailed]_vars

\* C6 as stated: the rejected second import raises the actor's totalFailed by one.
C6_DuplicateRejectedCountsFailure ==
    [][(/\ SingleImportStep
        /\ ValidRecord(last'.targetNFT, last'.imports[1])
        /\ last'.imports[1].originalTokenInfo \in importedTokens) =>
        /\ last'.reverted
        /\ last'.reason = "Token already imported"
        /\ nft' = nft
        /\ importerStats'[last'.sender].totalFailed =
             importerStats[last'.sender].totalFailed + 1]_vars

\* The only import that ever succeeded was this actor's import of this record
\* into this registry, and the actor's second call with it has been rejected.
C6_Witness ==
    /\ last.op \in SingleOps
    /\ last.reverted /\ last.reason = "Token already imported"
    /\ importedTokens = {last.imports[1].originalTokenInfo}
    /\ importerStats[last.sender].totalImported = 1
    /\ importerStats[last.sender].totalFailed = 0
    /\ \E i \in 1..Len(nft[last.targetNFT].tokens) :
          LET tok == nft[last.targetNFT].tokens[i]
          IN /\ tok.minter = Self
             /\ tok.info = last.imports[1].originalTokenInfo
             /\ tok.to = EOA(last.imports[1].to)
             /\ tok.metaUrl = last.imports[1].tokenURI
             /\ tok.creator = last.imports[1].creator
             /\ tok.feeRate = last.imports[1].royaltyRate

\* C7: validation failure mutates nothing.  When a single import is called
\* with arguments that validateImportData rejects in the state of the call
\* (zero registry, empty URI, zero recipient or creator, royalty above 100, tag
\* admitted, tag stored in the destination registry), the call fails and the
\* admitted set, every account's stats, the registries and the created
\* accounts are as before.
C7_ValidationFailureMutatesNothing ==
    [][(/\ SingleImportStep
        /\ ~validateImportData(World, last'.targetNFT, last'.imports[1]).isValid) =>
        /\ last'.reverted
        /\ last'.hasReason
        /\ last'.events = <<>>
        /\ importedTokens' = importedTokens
        /\ importerStats' = importerStats
        /\ nft' = nft
        /\ accounts' = accounts]_vars

\* An import of a tag that is not admitted but is stored in the destination
\* registry was rejected, in a state where an earlier import is on record.
C7_Witness ==
    /\ last.op \in SingleOps
    /\ last.reverted
    /\ last.reason = "Original token already exists in target NFT"
    /\ last.imports[1].originalTokenInfo \notin importedTokens
    /\ importedTokens # {}
    /\ \E a \in Actors : importerStats[a].totalImported > 0

\* C8: mint failure accounting.  When a single import passes validation and the
\* destination registry rejects the mint, then after the import the caller's
\* totalFailed is one higher, its totalImported is unchanged and the origin tag
\* is not admitted.
C8_MintFailureCounted ==
    [][(/\ SingleImportStep
        /\ ~PreMint(World, last'.targetNFT, last'.imports[1], last'.registry,
                    last'.implementation).rejected
        /\ last'.outs[1] # MintOk) =>
        /\ importerStats'[last'.sender].totalFailed =
             importerStats[last'.sender].totalFailed + 1
        /\ importerStats'[last'.sender].totalImported =
             importerStats[last'.sender].totalImported
        /\ last'.imports[1].originalTokenInfo \notin importedTokens']_vars

\* The registry rejected a mint with a reason and the caller has no failure counted.
C8_Witness ==
    /\ last.op \in SingleOps
    /\ last.reverted
    /\ last.reason = "Import failed: Not authorized"
    /\ importerStats[last.sender].totalFailed = 0

\* C9: success postcondition.  After a single import by actor A returned, the
\* record's origin tag is admitted, A's totalImported is one higher and its
\* lastImportTime is the time of the call, the returned id is the one the
\* registry assigned (its supply before the call plus one: 1 on an empty
\* registry), the registry stores the record's origin tag, URI, creator and
\* royalty with that token, and the other registry is untouched.
C9_SuccessPostcondition ==
    [][(SingleImportStep /\ ~last'.reverted) =>
        LET A == last'.sender
            d == last'.imports[1]
            target == last'.targetNFT
            id == last'.ret[1]
        IN /\ d.originalTokenInfo \in importedTokens'
           /\ importerStats'[A].totalImported = importerStats[A].totalImported + 1
           /\ importerStats'[A].lastImportTime = now
           /\ Len(last'.ret) = 1
           /\ id = Len(nft[target].tokens) + 1
           /\ nft[target] = EmptyRegistry => id = 1
           /\ Len(nft'[target].tokens) = id
           /\ SubSeq(nft'[target].tokens, 1, id - 1) = nft[target].tokens
           /\ nft'[target].tokens[id].info = d.originalTokenInfo
           /\ nft'[target].tokens[id].metaUrl = d.tokenURI
           /\ nft'[target].tokens[id].creator = d.creator
           /\ nft'[target].tokens[id].feeRate = d.royaltyRate
           /\ originalTokenInfo(nft'[target], id) = [ok |-> TRUE, value |-> d.originalTokenInfo]
           /\ \A n \in NFTs \ {target} : nft'[n] = nft[n]
           /\ last'.events = <<Event("JSONDataImported", A, target, d.originalTokenInfo,
                                      id, 0, "")>>]_vars

\* The first import into the empty registry returned token id 1.
C9_Witness ==
    /\ last.op \in SingleOps
    /\ ~last.reverted
    /\ last.ret = <<1>>
    /\ last.imports[1].originalTokenInfo \in importedTokens
    /\ importerStats[last.sender].totalImported = 1
    /\ Len(nft[last.targetNFT].tokens) = 1
    /\ nft[last.targetNFT].tokens[1].info = last.imports[1].originalTokenInfo

SizeReasons == {"No imports provided", "Batch size too large. Maximum 100 NFTs per batch"}

\* C10: batch size bound.  A batch import with no record or with more than
\* MaxBatch records fails for its size before any record is processed: no event
\* is emitted, no token is minted, and the admitted set and the stats are
\* unchanged.  A batch of 1..MaxBatch records is not refused for its size: it
\* emits the batch-started event with its size and processes its records.
C10_BatchSizeBound ==
    [][(ImportStep /\ last'.op \in BatchOps) =>
        LET n == Len(last'.imports)
        IN /\ (n = 0 \/ n > MaxBatch) =>
                /\ last'.reverted
                /\ last'.reason \in SizeReasons
                /\ last'.events = <<>>
                /\ nft' = nft
                /\ importedTokens' = importedTokens
                /\ importerStats' = importerStats
           /\ n \in 1..MaxBatch =>
                /\ last'.reason \notin SizeReasons
                /\ (\A i \in 1..n : last'.outs[i] # MintBare) =>
                     /\ ~last'.reverted
                     /\ Len(last'.ret) = n
                     /\ last'.events[1] = Event("BatchImportStarted", last'.sender,
                                                last'.targetNFT, "", n, 0, "")]_vars

\* A batch of MaxBatch + 1 records was refused.
C10_Witness ==
    /\ last.op = "importBatch"
    /\ Len(last.imports) = MaxBatch + 1
    /\ last.reverted
    /\ last.reason = "Batch size too large. Maximum 100 NFTs per batch"

\* The registry reg stores the origin tag t at a readable index of 1..totalSupply.
Stored(reg, t) ==
    reg.supplyOk /\ \E i \in 1..Len(reg.tokens) : reg.tokens[i].ok /\ reg.tokens[i].info = t

\* The checks of the validation engine, numbered in their order, and their reasons.
CheckFails(k, targetNFT, d) ==
    CASE k = 1 -> targetNFT = Zero
      [] k = 2 -> d.tokenURI = ""
      [] k = 3 -> d.to = Zero
      [] k = 4 -> d.creator = Zero
      [] k = 5 -> d.royaltyRate > MaxRoyalty
      [] k = 6 -> d.originalTokenInfo \in importedTokens
      [] k = 7 -> targetNFT # Zero /\ Stored(nft[targetNFT], d.originalTokenInfo)

CheckReason ==
    <<"Invalid target NFT address", "Token URI cannot be empty", "Invalid recipient address",
      "Invalid creator address", "Royalty rate cannot exceed 100%", "Token already imported",
      "Original token already exists in target NFT">>

FirstFailure(targetNFT, d) ==
    LET failing == {k \in 1..Len(CheckReason) : CheckFails(k, targetNFT, d)}
    IN IF failing = {} THEN 0 ELSE CHOOSE k \in failing : \A j \in failing : k <= j

ExpectedVerdict(targetNFT, d) ==
    IF FirstFailure(targetNFT, d) = 0 THEN [isValid |-> TRUE, reason |-> ""]
    ELSE [isValid |-> FALSE, reason |-> CheckReason[FirstFailure(targetNFT, d)]]

ViewOps == {"validateImportData", "validateBatch"}

\* C14: validation order.  For every record and state, validateImportData (and
\* each entry of validateBatch) is valid exactly when no check fails, and
\* otherwise carries the reason of the first failing check in the order target
\* registry, URI, recipient, creator, royalty, tag admitted, tag stored in the
\* registry; a single import of the record is rejected with that same reason,
\* and with none of these reasons when no check fails.
C14_ValidationOrder ==
    [][ImportStep =>
        /\ last'.op \in ViewOps =>
             last'.ret = [i \in 1..Len(last'.imports) |->
                            ExpectedVerdict(last'.targetNFT, last'.imports[i])]
        /\ last'.op \in SingleOps =>
             LET v == ExpectedVerdict(last'.targetNFT, last'.imports[1])
             IN /\ ~v.isValid => (last'.reverted /\ last'.reason = v.reason)
                /\ v.isValid => \A k \in 1..Len(CheckReason) : last'.reason # CheckReason[k]]_vars

\* A record failing the URI check, the royalty check and the admitted check at
\* once was reported with the URI reason.
C14_Witness ==
    /\ last.op = "validateImportData"
    /\ last.imports[1].tokenURI = ""
    /\ last.imports[1].royaltyRate > MaxRoyalty
    /\ last.imports[1].originalTokenInfo \in importedTokens
    /\ last.ret = <<[isValid |-> FALSE, reason |-> "Token URI cannot be empty"]>>

\* C15: validation is side-effect free.  A validateImportData or validateBatch
\* call leaves the admitted set, all stats, the registries and the created
\* accounts unchanged, so every import gives after the call the result it
\* would have given before it.
C15_ValidationSideEffectFree ==
    [][(ImportStep /\ last'.op \in ViewOps) =>
        /\ importedTokens' = importedTokens
        /\ importerStats' = importerStats
        /\ nft' = nft
        /\ accounts' = accounts
        /\ \A c \in AnyCalls :
              importSingleTokenWithTBA(World', Deployer, c.targetNFT, c.d, c.registry,
                                       c.implementation, MintOk)
              = importSingleTokenWithTBA(World, Deployer, c.targetNFT, c.d, c.registry,
                                         c.implementation, MintOk)]_vars

\* After an import, a batch validation found a record valid and its tag is
\* still not admitted.
C15_Witness ==
    /\ last.op = "validateBatch"
    /\ Len(last.imports) = 3
    /\ importedTokens # {}
    /\ last.ret[1].isValid
    /\ ~last.ret[2].isValid
    /\ last.imports[1].originalTokenInfo \notin importedTokens

\* This step is a whole batch import that returned.
BatchReturned == ImportStep /\ last'.op \in BatchOps /\ ~last'.reverted

\* C11: batch results are positional.  A batch import of N records that
\* returned gives N entries; record i is attempted once, in input order (the
\* i-th per-record event is about record i); entry i is the id of the token
\* minted for record i (a new token of the destination registry, carrying the
\* record's origin tag) when the record succeeded and 0 when it failed; and as
\* many tokens were minted as there are non-zero entries.
C11_BatchResultsPositional ==
    [][BatchReturned =>
        LET n == Len(last'.imports)
            old == Len(nft[last'.targetNFT].tokens)
            new == nft'[last'.targetNFT].tokens
        IN /\ Len(last'.ret) = n
           /\ Len(last'.events) = n + 2
           /\ Len(new) = old + Cardinality(Succeeded(last'))
           /\ \A i \in 1..n :
                /\ last'.events[i + 1].info = last'.imports[i].originalTokenInfo
                /\ last'.ret[i] # 0 =>
                     /\ last'.events[i + 1].name = "JSONDataImported"
                     /\ last'.events[i + 1].a = last'.ret[i]
                     /\ last'.ret[i] \in (old + 1)..Len(new)
                     /\ new[last'.ret[i]].info = last'.imports[i].originalTokenInfo
                     /\ new[last'.ret[i]].metaUrl = last'.imports[i].tokenURI
                /\ last'.ret[i] = 0 => last'.events[i + 1].name = "ImportFailed"
           /\ \A i, j \in 1..n :
                (i < j /\ last'.ret[i] # 0 /\ last'.ret[j] # 0) => last'.ret[i] < last'.ret[j]]_vars

\* A batch returned <<id, 0, id'>>: the failed record in the middle kept its place.
C11_Witness ==
    /\ last.op \in BatchOps
    /\ ~last.reverted
    /\ Len(last.imports) = 3
    /\ last.ret[1] # 0 /\ last.ret[2] = 0 /\ last.ret[3] = last.ret[1] + 1
    /\ last.imports[2].originalTokenInfo = last.imports[1].originalTokenInfo
    /\ last.imports[3].originalTokenInfo # last.imports[1].originalTokenInfo

\* C12: batch notifications.  A batch import that returned emitted
\* BatchImportStarted with the number of records first and BatchImportCompleted
\* last, and nothing of either kind in between; the completed event's counts
\* add up to the number of records, and its success count is the number of
\* tokens minted.
C12_BatchNotifications ==
    [][BatchReturned =>
        LET n == Len(last'.imports)
            ev == last'.events
            done == ev[Len(ev)]
        IN /\ Len(ev) >= 2
           /\ ev[1] = Event("BatchImportStarted", last'.sender, last'.targetNFT, "", n, 0, "")
           /\ done.name = "BatchImportCompleted"
           /\ done.importer = last'.sender /\ done.targetNFT = last'.targetNFT
           /\ \A k \in 2..(Len(ev) - 1) : ev[k].name \in {"JSONDataImported", "ImportFailed"}
           /\ done.a + done.b = n
           /\ done.a = Len(nft'[last'.targetNFT].tokens) - Len(nft[last'.targetNFT].tokens)
           /\ done.a = Cardinality(Succeeded(last'))]_vars

\* A batch of three records completed with two successes and one failure.
C12_Witness ==
    /\ last.op \in BatchOps
    /\ ~last.reverted
    /\ Len(last.imports) = 3
    /\ last.events[1].name = "BatchImportStarted" /\ last.events[1].a = 3
    /\ last.events[Len(last.events)].a = 2
    /\ last.events[Len(last.events)].b = 1

\* The record d can be imported into targetNFT in the current state: it passes
\* validation and, if it names a TBA source, that source is stored in the registry.
Importable(targetNFT, d) ==
    /\ validateImportData(World, targetNFT, d).isValid
    /\ d.tbaSourceToken # "" => Stored(nft[targetNFT], d.tbaSourceToken)

\* C13: duplicates inside one batch.  When a batch that returned holds the same
\* importable record at positions i < j (no valid record of that tag before i,
\* and the registry accepts the mint of record i), record i succeeds, record j
\* fails with "Token already imported", exactly one token of that tag has been
\* minted, and a batch of just these two records counts one success and one
\* failure.
C13_DuplicateInsideBatch ==
    [][BatchReturned =>
        \A i, j \in 1..Len(last'.imports) :
          (/\ i < j
           /\ last'.imports[i] = last'.imports[j]
           /\ Importable(last'.targetNFT, last'.imports[i])
           /\ last'.outs[i] = MintOk
           /\ \A k \in 1..(i - 1) :
                 last'.imports[k].originalTokenInfo = last'.imports[i].originalTokenInfo
                    => ~ValidRecord(last'.targetNFT, last'.imports[k])) =>
            /\ last'.ret[i] # 0
            /\ last'.ret[j] = 0
            /\ last'.events[j + 1].name = "ImportFailed"
            /\ last'.events[j + 1].reason = "Token already imported"
            /\ \A t \in Tags : t = last'.imports[i].originalTokenInfo =>
                  Cardinality(Minted(t)') = 1
            /\ Len(last'.imports) = 2 =>
                 /\ last'.events[Len(last'.events)].a = 1
                 /\ last'.events[Len(last'.events)].b = 1]_vars

\* A batch of the same record twice returned <<id, 0>>.
C13_Witness ==
    /\ last.op \in BatchOps
    /\ ~last.reverted
    /\ Len(last.imports) = 2
    /\ last.imports[1] = last.imports[2]
    /\ last.ret[1] # 0 /\ last.ret[2] = 0
    /\ last.events[3].reason = "Token already imported"
    /\ Cardinality(Minted(last.imports[1].originalTokenInfo)) = 1

ParentNotFound == "TBA source token not found in target NFT"

\* In the call c, record i is a child whose parent tag is not stored in the
\* destination registry when the call starts, and record j > i is that parent,
\* the first record of the batch to carry the parent's tag; both pass validation.
ChildBeforeParent(c, i, j) ==
    /\ i < j
    /\ c.registry # Zero /\ c.implementation # Zero
    /\ c.imports[i].tbaSourceToken = c.imports[j].originalTokenInfo
    /\ c.imports[j].tbaSourceToken = ""
    /\ validateImportData(World, c.targetNFT, c.imports[i]).isValid
    /\ validateImportData(World, c.targetNFT, c.imports[j]).isValid
    /\ ~Stored(nft[c.targetNFT], c.imports[i].tbaSourceToken)
    /\ \A k \in 1..(j - 1) :
          c.imports[k].originalTokenInfo # c.imports[j].originalTokenInfo
    /\ c.outs[j] = MintOk

\* C20: ParentNotFound is transient with respect to order.  A single import of
\* a child whose TBA source tag is not stored in the destination registry fails
\* with "TBA source token not found in target NFT" and changes nothing; in a
\* batch where the child precedes its parent the child fails with that reason
\* and the parent succeeds; and the unchanged child record, imported again once
\* the parent is stored (by a later call, or later in the same batch), succeeds.
C20_ParentNotFoundTransient ==
    [][/\ (/\ SingleImportStep
            /\ validateImportData(World, last'.targetNFT, last'.imports[1]).isValid
            /\ last'.imports[1].tbaSourceToken # ""
            /\ last'.registry # Zero /\ last'.implementation # Zero) =>
            IF Stored(nft[last'.targetNFT], last'.imports[1].tbaSourceToken)
            THEN last'.outs[1] = MintOk =>
                   /\ ~last'.reverted
                   /\ last'.imports[1].originalTokenInfo \in importedTokens'
            ELSE /\ last'.reverted
                 /\ last'.reason = ParentNotFound
                 /\ nft' = nft
                 /\ importedTokens' = importedTokens
                 /\ importerStats' = importerStats
                 /\ accounts' = accounts
       /\ BatchReturned =>
            \A i, j \in 1..Len(last'.imports) :
              ChildBeforeParent(last', i, j) =>
                /\ last'.ret[i] = 0
                /\ last'.events[i + 1].reason = ParentNotFound
                /\ last'.ret[j] # 0
                /\ \A k \in (j + 1)..Len(last'.imports) :
                      (/\ last'.imports[k] = last'.imports[i]
                       /\ last'.outs[k] = MintOk
                       /\ \A m \in (j + 1)..(k - 1) :
                             last'.imports[m].originalTokenInfo
                                # last'.imports[i].originalTokenInfo) =>
                        last'.ret[k] # 0]_vars

\* A batch <<child, parent, child>> returned <<0, id, id'>>: the child failed
\* before its parent and succeeded, unchanged, after it.
C20_Witness ==
    /\ last.op = "importBatchWithTBA"
    /\ ~last.reverted
    /\ Len(last.imports) = 3
    /\ last.imports[1].tbaSourceToken = last.imports[2].originalTokenInfo
    /\ last.imports[3] = last.imports[1]
    /\ last.ret[1] = 0 /\ last.ret[2] # 0 /\ last.ret[3] # 0
    /\ last.events[2].reason = ParentNotFound

AlreadyExists == "Original token already exists in target NFT"

\* C16: the second, independent duplicate check.  When the destination registry
\* stores origin tag t at a readable index of 1..totalSupply (minted through
\* another path, with burnt tokens possibly before it) and t is not admitted,
\* validateImportData reports a valid record of tag t invalid with "Original
\* token already exists in target NFT", a single import of it fails with that
\* reason and mints nothing, and a batch record of tag t fails.
C16_SecondDuplicateCheck ==
    [][ImportStep =>
        \A i \in 1..Len(last'.imports) :
          (/\ ValidRecord(last'.targetNFT, last'.imports[i])
           /\ last'.imports[i].originalTokenInfo \notin importedTokens
           /\ Stored(nft[last'.targetNFT], last'.imports[i].originalTokenInfo)) =>
            /\ last'.op \in ViewOps =>
                 last'.ret[i] = [isValid |-> FALSE, reason |-> AlreadyExists]
            /\ last'.op \in SingleOps =>
                 /\ last'.reverted
                 /\ last'.reason = AlreadyExists
                 /\ nft' = nft
                 /\ importedTokens' = importedTokens
            /\ (last'.op \in BatchOps /\ ~last'.reverted) =>
                 /\ last'.ret[i] = 0
                 /\ last'.events[i + 1].reason = AlreadyExists]_vars

\* An import was rejected because a token minted by another path, stored after
\* a burnt one, carries the record's origin tag, which is not admitted.
C16_Witness ==
    /\ last.op \in SingleOps
    /\ last.reverted /\ last.reason = AlreadyExists
    /\ last.imports[1].originalTokenInfo \notin importedTokens
    /\ Len(nft[last.targetNFT].tokens) >= 2
    /\ ~nft[last.targetNFT].tokens[1].ok
    /\ nft[last.targetNFT].tokens[2].ok
    /\ nft[last.targetNFT].tokens[2].info = last.imports[1].originalTokenInfo
    /\ nft[last.targetNFT].tokens[2].minter # Self

\* The smallest readable index of reg whose stored origin tag is t, or 0.
MinReadable(reg, t) ==
    LET found == {i \in 1..Len(reg.tokens) : reg.tokens[i].ok /\ reg.tokens[i].info = t}
    IN IF found = {} THEN 0 ELSE CHOOSE i \in found : \A j \in found : i <= j

\* C17: origin lookup.  For every registry content whose totalSupply can be
\* read and every tag, _findTokenByTBASource returns the smallest index in
\* 1..totalSupply whose stored origin tag is readable and equal to the tag, and
\* 0 when there is none; an index whose read fails is skipped.  The duplicate
\* scan _isTokenAlreadyImported finds the tag exactly when such an index exists.
C17_OriginLookup ==
    \A n \in NFTs, t \in Tags :
      nft[n].supplyOk =>
        /\ _findTokenByTBASource(nft[n], t) = MinReadable(nft[n], t)
        /\ _isTokenAlreadyImported(nft[n], t) = (MinReadable(nft[n], t) # 0)

\* A child was minted to the account of token 2: the lookup of its source tag
\* skipped the burnt token 1, which carries the same tag.
C17_Witness ==
    /\ last.op \in SingleOps
    /\ ~last.reverted
    /\ last.imports[1].tbaSourceToken # ""
    /\ Len(nft[last.targetNFT].tokens) = 3
    /\ ~nft[last.targetNFT].tokens[1].ok
    /\ nft[last.targetNFT].tokens[1].info = last.imports[1].tbaSourceToken
    /\ nft[last.targetNFT].tokens[2].info = last.imports[1].tbaSourceToken
    /\ _findTokenByTBASource(nft[last.targetNFT], last.imports[1].tbaSourceToken) = 2
    /\ nft[last.targetNFT].tokens[3].to
         = account(last.implementation, last.targetNFT, 2, Salt)

\* C18: unreadable totalSupply.  When the destination registry's totalSupply
\* cannot be read, an otherwise valid record whose tag is not admitted is found
\* valid by validateImportData; without a TBA source its import goes to the
\* mint call and succeeds when the registry accepts the mint, even if the tag
\* is stored in the registry; with a TBA source its import fails with "TBA
\* source token not found in target NFT" and mints nothing.
C18_UnreadableTotalSupply ==
    [][(/\ ImportStep
        /\ last'.op \in SingleOps \cup {"validateImportData"}
        /\ ValidRecord(last'.targetNFT, last'.imports[1])
        /\ last'.imports[1].originalTokenInfo \notin importedTokens
        /\ ~nft[last'.targetNFT].supplyOk) =>
        /\ last'.op = "validateImportData" =>
             last'.ret = <<[isValid |-> TRUE, reason |-> ""]>>
        /\ (last'.op \in SingleOps /\ last'.imports[1].tbaSourceToken = ""
                                     /\ last'.outs[1] = MintOk) =>
             /\ ~last'.reverted
             /\ Len(nft'[last'.targetNFT].tokens) = Len(nft[last'.targetNFT].tokens) + 1
             /\ nft'[last'.targetNFT].tokens[last'.ret[1]].to = EOA(last'.imports[1].to)
        /\ (last'.op \in SingleOps /\ last'.imports[1].tbaSourceToken # ""
                                     /\ last'.registry # Zero
                                     /\ last'.implementation # Zero) =>
             /\ last'.reverted
             /\ last'.reason = ParentNotFound
             /\ nft' = nft
             /\ importedTokens' = importedTokens]_vars

\* With totalSupply unreadable, a record was imported although another path had
\* stored its tag before, and a later child import naming a stored tag has
\* failed because its parent cannot be located.
C18_Witness ==
    /\ last.op \in SingleOps
    /\ ~nft[last.targetNFT].supplyOk
    /\ last.reverted /\ last.reason = ParentNotFound
    /\ MinReadable(nft[last.targetNFT], last.imports[1].tbaSourceToken) # 0
    /\ \E i, j \in 1..Len(nft[last.targetNFT].tokens) :
         /\ i < j
         /\ nft[last.targetNFT].tokens[i].ok
         /\ nft[last.targetNFT].tokens[i].minter # Self
         /\ nft[last.targetNFT].tokens[j].minter = Self
         /\ nft[last.targetNFT].tokens[j].info = nft[last.targetNFT].tokens[i].info

\* The statement of C19 as the specification words it: when an import (single,
\* or a record of a batch) of a child naming the TBA source tag p succeeds, the
\* child is minted to the account derived from (implementation, destination
\* registry, n, salt) for every token n that the importer minted into this
\* registry with origin tag p, and not to the child record's recipient.
C19_ChildMintedToImportedParent ==
    [][(ImportStep /\ ~last'.reverted /\ last'.op \in SingleOps \cup BatchOps) =>
        \A i \in 1..Len(last'.imports) :
          (last'.ret[i] # 0 /\ last'.imports[i].tbaSourceToken # "") =>
            LET new == nft'[last'.targetNFT].tokens
                id == last'.ret[i]
                p == last'.imports[i].tbaSourceToken
            IN /\ new[id].to # EOA(last'.imports[i].to)
               /\ \A n \in 1..(id - 1) :
                    (new[n].minter = Self /\ new[n].info = p) =>
                       new[id].to = account(last'.implementation, last'.targetNFT, n, Salt)]_vars

\* C19 (amended): nested-ownership chaining.  When an import (single, or a
\* record of a batch) of a child naming the TBA source tag p succeeds, the child
\* is minted to the account derived from (implementation, destination registry,
\* m, salt), where m is the smallest index of the registry whose stored tag is
\* readable and equal to p when the child is processed; the account has been
\* created and is not the child record's recipient.  m is the id n the parent
\* received from the importer whenever token n is still readable and no
\* smaller readable index stores p.
C19_NestedOwnershipChaining ==
    [][(ImportStep /\ ~last'.reverted /\ last'.op \in SingleOps \cup BatchOps) =>
        \A i \in 1..Len(last'.imports) :
          (last'.ret[i] # 0 /\ last'.imports[i].tbaSourceToken # "") =>
            LET new == nft'[last'.targetNFT].tokens
                id == last'.ret[i]
                p == last'.imports[i].tbaSourceToken
                before == [nft[last'.targetNFT] EXCEPT !.tokens = SubSeq(new, 1, id - 1)]
                m == MinReadable(before, p)
            IN /\ m # 0
               /\ new[id].to = account(last'.implementation, last'.targetNFT, m, Salt)
               /\ new[id].to \in accounts'
               /\ new[id].to # EOA(last'.imports[i].to)
               /\ \A n \in 1..(id - 1) :
                    (/\ new[n].minter = Self /\ new[n].info = p /\ new[n].ok
                     /\ \A k \in 1..(n - 1) : ~(new[k].ok /\ new[k].info = p)) =>
                       new[id].to = account(last'.implementation, last'.targetNFT, n, Salt)]_vars

\* The parent was imported as token 2 of the registry, after a token of another
\* path, and the child has been minted to the account of token 2.
C19_Witness ==
    /\ last.op \in SingleOps
    /\ ~last.reverted
    /\ last.imports[1].tbaSourceToken # ""
    /\ Len(nft[last.targetNFT].tokens) = 3
    /\ nft[last.targetNFT].tokens[1].minter # Self
    /\ nft[last.targetNFT].tokens[2].minter = Self
    /\ nft[last.targetNFT].tokens[2].info = last.imports[1].tbaSourceToken
    /\ nft[last.targetNFT].tokens[3].info = last.imports[1].originalTokenInfo
    /\ nft[last.targetNFT].tokens[3].to
         = account(last.implementation, last.targetNFT, 2, Salt)

\* The parent index a child record resolves to when it is processed as record
\* i of the call c: the lookup over the tokens that precede the child's own.
ParentIndex(c, i, registryAfter) ==
    _findTokenByTBASource([registryAfter EXCEPT !.tokens = SubSeq(@, 1, c.ret[i] - 1)],
                          c.imports[i].tbaSourceToken)

\* C21: deterministic, idempotent account resolution.  A child that is imported
\* (single, or as a record of a batch) is minted to the account derived from
\* (implementation, destination registry, parent index, salt 0); every token the
\* importer minted before to an account of the same implementation and parent
\* went to that same account; the call adds no account other than the ones its
\* children resolve to, and none when they exist already; and a valid child
\* whose parent is stored and whose mint the registry accepts is imported also
\* when the account of its parent exists already.
C21_DeterministicIdempotentAccount ==
    [][(ImportStep /\ last'.op \in SingleOps \cup BatchOps) =>
        /\ ~last'.reverted =>
             /\ \A i \in 1..Len(last'.imports) :
                  (last'.ret[i] # 0 /\ last'.imports[i].tbaSourceToken # "") =>
                    LET reg == nft'[last'.targetNFT]
                        tok == reg.tokens[last'.ret[i]]
                        m == ParentIndex(last', i, reg)
                    IN /\ tok.to = account(last'.implementation, last'.targetNFT, m, Salt)
                       /\ tok.to \in accounts'
                       /\ \A k \in 1..(last'.ret[i] - 1) :
                            (/\ reg.tokens[k].minter = Self
                             /\ reg.tokens[k].to.addr = "tba"
                             /\ reg.tokens[k].to.impl = last'.implementation
                             /\ reg.tokens[k].to.tokenId = m) => reg.tokens[k].to = tok.to
             /\ accounts' \ accounts \subseteq
                  {nft'[last'.targetNFT].tokens[last'.ret[i]].to :
                     i \in {j \in 1..Len(last'.imports) : last'.ret[j] # 0}}
        /\ last'.reverted => accounts' = accounts
        /\ (/\ last'.op \in SingleOps
            /\ ValidRecord(last'.targetNFT, last'.imports[1])
            /\ last'.imports[1].tbaSourceToken # ""
            /\ last'.registry # Zero /\ last'.implementation # Zero
            /\ last'.imports[1].originalTokenInfo \notin importedTokens
            /\ ~Stored(nft[last'.targetNFT], last'.imports[1].originalTokenInfo)
            /\ _findTokenByTBASource(nft[last'.targetNFT], last'.imports[1].tbaSourceToken) # 0
            /\ last'.outs[1] = MintOk) => ~last'.reverted]_vars

\* Two different children of the same parent have been imported one after the
\* other and both tokens belong to the one account of the parent.
C21_Witness ==
    /\ last.op \in SingleOps
    /\ ~last.reverted
    /\ last.imports[1].tbaSourceToken = "t2"
    /\ Cardinality(accounts) = 1
    /\ \E j, k \in 1..Len(nft[last.targetNFT].tokens) :
         /\ j < k
         /\ k = last.ret[1]
         /\ nft[last.targetNFT].tokens[j].minter = Self
         /\ nft[last.targetNFT].tokens[k].minter = Self
         /\ nft[last.targetNFT].tokens[j].info # nft[last.targetNFT].tokens[k].info
         /\ nft[last.targetNFT].tokens[j].to = nft[last.targetNFT].tokens[k].to
         /\ nft[last.targetNFT].tokens[k].to \in accounts

\* C22: all-or-nothing single import.  A single import that returns has minted
\* one token carrying the record's tag, admitted the tag and credited its
\* caller; a single import that fails, at a check or at the mint call, leaves
\* the admitted set, the statistics, the registries and the set of
\* materialized accounts exactly as they were.
C22_AllOrNothingSingleImport ==
    [][SingleImportStep =>
        IF last'.reverted
        THEN /\ importedTokens' = importedTokens
             /\ importerStats' = importerStats
             /\ nft' = nft
             /\ accounts' = accounts
        ELSE LET d == last'.imports[1]
                 before == nft[last'.targetNFT].tokens
                 after == nft'[last'.targetNFT].tokens
             IN /\ Len(after) = Len(before) + 1
                /\ last'.ret[1] = Len(after)
                /\ SubSeq(after, 1, Len(before)) = before
                /\ after[Len(after)].info = d.originalTokenInfo
                /\ after[Len(after)].minter = Self
                /\ d.originalTokenInfo \in importedTokens'
                /\ importerStats'[last'.sender].totalImported
                     = importerStats[last'.sender].totalImported + 1
                /\ importerStats'[last'.sender].lastImportTime = now]_vars

\* A child import has materialized the account of its parent (the token nftB
\* holds from the start) and was then rejected by the mint call: no account
\* exists, the tag is not admitted and no token carries it.
C22_Witness ==
    /\ last.op \in SingleOps
    /\ last.reverted
    /\ last.reason = "Import failed: Not authorized"
    /\ last.imports[1].tbaSourceToken # ""
    /\ _findTokenByTBASource(nft[last.targetNFT], last.imports[1].tbaSourceToken) # 0
    /\ accounts = {}
    /\ last.imports[1].originalTokenInfo \notin importedTokens
    /\ Minted(last.imports[1].originalTokenInfo) = {}

\* C23: per-registry dedup scope.  After origin tag t has been imported into one
\* destination registry, an otherwise valid record with tag t whose mint the
\* registry accepts is imported into a different destination registry that
\* does not store t.
C23_PerRegistryDedupScope ==
    [][(/\ SingleImportStep
        /\ ValidRecord(last'.targetNFT, last'.imports[1])
        /\ last'.imports[1].tbaSourceToken = ""
        /\ last'.outs[1] = MintOk
        /\ ~Stored(nft[last'.targetNFT], last'.imports[1].originalTokenInfo)
        /\ \E n \in NFTs \ {last'.targetNFT} :
             \E k \in 1..Len(nft[n].tokens) :
                /\ nft[n].tokens[k].minter = Self
                /\ nft[n].tokens[k].info = last'.imports[1].originalTokenInfo)
        => ~last'.reverted]_vars

\* The sum of totalImported over the addresses of S.
RECURSIVE SumImported(_, _)
SumImported(stats, S) ==
    IF S = {} THEN 0
    ELSE LET a == CHOOSE x \in S : TRUE
         IN stats[a].totalImported + SumImported(stats, S \ {a})

\* The number of destination tokens the importer has minted.
MintedCount ==
    Cardinality({p \in UNION {{<<n, i>> : i \in 1..Len(nft[n].tokens)} : n \in NFTs} :
                    nft[p[1]].tokens[p[2]].minter = Self})

\* C24: monotone statistics.  Across imports, batches, validations and the
\* administrative operations, totalImported, totalFailed and lastImportTime of
\* every address never decrease, and totalImported summed over all addresses
\* that hold statistics (the callers, and the importer's own address, which is
\* msg.sender of the imports a batch makes) equals the number of tokens the
\* importer has minted.
C24_MonotoneStatistics ==
    /\ [](SumImported(importerStats, Senders) = MintedCount)
    /\ [][\A a \in Senders :
            /\ importerStats'[a].totalImported >= importerStats[a].totalImported
            /\ importerStats'[a].totalFailed >= importerStats[a].totalFailed
            /\ importerStats'[a].lastImportTime >= importerStats[a].lastImportTime]_vars

\* Both a caller and the importer's own address have been credited, at
\* different times, a tag has been cleared after its import, the role has
\* changed hands and the new owner has withdrawn the balance.
C24_Witness ==
    /\ importerStats[Self].totalImported >= 1
    /\ \E a \in Actors : /\ importerStats[a].totalImported >= 1
                          /\ importerStats[a].lastImportTime
                               # importerStats[Self].lastImportTime
    /\ \E t \in Tags : t \notin importedTokens /\ Minted(t) # {}
    /\ owner # Deployer
    /\ last.op = "withdraw"
    /\ ~last.reverted

AdminOps == {"transferOwnership", "resetImportStatus", "withdraw"}

\* This step is a whole administrative transaction.
AdminStep == ImportStep /\ last'.op \in AdminOps

\* C25: administrative authorization.  The owner is never the zero address.  A
\* call of transferOwnership, resetImportStatus or withdraw by anyone but the
\* current owner fails with "Owner only" and leaves the owner, the admitted set
\* and the balance unchanged; the owner changes only by the owner's own
\* successful transferOwnership, which makes the named address the owner (so
\* the previous owner's calls fail from then on); a tag leaves the admitted set
\* only by the owner's resetImportStatus and the balance decreases only by the
\* owner's withdraw.
C25_AdministrativeAuthorization ==
    /\ [](owner # Zero)
    /\ [][/\ AdminStep =>
               /\ last'.sender # owner =>
                    /\ last'.reverted
                    /\ last'.reason = "Owner only"
                    /\ owner' = owner
                    /\ importedTokens' = importedTokens
                    /\ balance' = balance
               /\ (last'.op = "transferOwnership" /\ ~last'.reverted) =>
                    /\ owner' = last'.arg
                    /\ \A a \in Actors \ {last'.arg} : ~onlyOwner(owner', a)
          /\ owner' # owner =>
               (last'.op = "transferOwnership" /\ last'.sender = owner /\ ~last'.reverted)
          /\ ~(importedTokens \subseteq importedTokens') =>
               (last'.op = "resetImportStatus" /\ last'.sender = owner /\ ~last'.reverted)
          /\ balance' < balance =>
               (last'.op = "withdraw" /\ last'.sender = owner /\ ~last'.reverted)]_vars

\* After the role was transferred, the previous owner's withdraw of a positive
\* balance has failed.
C25_Witness ==
    /\ owner # Deployer
    /\ last.op = "withdraw"
    /\ last.sender = Deployer
    /\ last.reverted
    /\ last.reason = "Owner only"
    /\ balance > 0
    /\ importedTokens # {}

\* The importer has minted a token of origin tag t into the registry reg.
ImportedInto(reg, t) ==
    \E k \in 1..Len(reg.tokens) : reg.tokens[k].minter = Self /\ reg.tokens[k].info = t

\* An import of a valid record whose tag was admitted by an import into the
\* same registry and then cleared, and whose mint the registry accepts.
ReimportStep ==
    /\ SingleImportStep
    /\ ValidRecord(last'.targetNFT, last'.imports[1])
    /\ last'.imports[1].tbaSourceToken = ""
    /\ last'.outs[1] = MintOk
    /\ last'.imports[1].originalTokenInfo \notin importedTokens
    /\ ImportedInto(nft[last'.targetNFT], last'.imports[1].originalTokenInfo)

\* The statement of C26 as the specification words it: after tag t has been
\* admitted by a successful import into a registry and the owner has cleared
\* it, t is not admitted and the next import of a valid record with tag t into
\* that registry succeeds.
C26_ClearingAllowsReimport ==
    [][/\ (ImportStep /\ last'.op = "resetImportStatus" /\ ~last'.reverted) =>
            last'.arg \notin importedTokens'
       /\ ReimportStep => ~last'.reverted]_vars

\* C26 (amended): after tag t has been admitted by a successful import into a
\* registry and the owner has cleared it, t is not admitted and validation and
\* import no longer report "Token already imported"; the next import of a
\* valid record with tag t into that registry succeeds when the registry no
\* longer stores t at a readable index (the token was burnt), and fails with
\* "Original token already exists in target NFT" while it still does.
C26_ClearingAllowsReimportOfBurnt ==
    [][/\ (ImportStep /\ last'.op = "resetImportStatus" /\ ~last'.reverted) =>
            last'.arg \notin importedTokens'
       /\ (/\ ImportStep
           /\ last'.op = "validateImportData"
           /\ last'.imports[1].originalTokenInfo \notin importedTokens
           /\ ImportedInto(nft[last'.targetNFT], last'.imports[1].originalTokenInfo)) =>
            last'.ret[1] =
               IF Stored(nft[last'.targetNFT], last'.imports[1].originalTokenInfo)
               THEN Verdict(FALSE, AlreadyExists) ELSE Verdict(TRUE, "")
       /\ ReimportStep =>
            IF Stored(nft[last'.targetNFT], last'.imports[1].originalTokenInfo)
            THEN /\ last'.reverted
                 /\ last'.reason = AlreadyExists
                 /\ nft' = nft
            ELSE /\ ~last'.reverted
                 /\ last'.imports[1].originalTokenInfo \in importedTokens'
                 /\ nft'[last'.targetNFT].tokens[last'.ret[1]].info
                      = last'.imports[1].originalTokenInfo]_vars

\* A tag was imported, its token burnt, the tag cleared and the record imported
\* again: the registry holds two tokens of the tag, the first one burnt.
C26_Witness ==
    /\ last.op \in SingleOps
    /\ ~last.reverted
    /\ \E j, k \in 1..Len(nft[last.targetNFT].tokens) :
         /\ j < k
         /\ k = last.ret[1]
         /\ nft[last.targetNFT].tokens[j].minter = Self
         /\ nft[last.targetNFT].tokens[k].minter = Self
         /\ nft[last.targetNFT].tokens[j].info = last.imports[1].originalTokenInfo
         /\ ~nft[last.targetNFT].tokens[j].ok
         /\ nft[last.targetNFT].tokens[k].ok

\* The reasons with which an import rejects its arguments.
InputCheckReasons ==
    {CheckReason[k] : k \in 1..Len(CheckReason)}
      \cup {"Registry address required for TBA", "Implementation address required for TBA"}

\* C27: pre-flight validation agrees with import.  When validateImportData
\* reports a record valid in a state, a single import of that record in the
\* same state is not rejected by an input check; in particular a record with
\* a TBA source and a zero registry or a zero implementation is not reported
\* valid.
C27_ValidationAgreesWithImport ==
    [][(/\ SingleImportStep
        /\ validateImportData(World, last'.targetNFT, last'.imports[1]).isValid)
        => ~(last'.reverted /\ last'.reason \in InputCheckReasons)]_vars

\* The call in flight c and the storage st are what the call r produces.
SameOutcome(c, st, r) ==
    /\ c.reverted = r.reverted
    /\ c.hasReason = r.hasReason
    /\ c.reason = r.reason
    /\ c.ret = r.ret
    /\ c.events = r.events
    /\ st = r.st

ClientDelivers == client.pc # "idle" /\ client'.pc = "idle" /\ client'.delivered

\* C29: client-side batch results are truthful.  When executeImport hands over
\* the results of a batch it submitted, the list has one entry per selected
\* record, in order, and an entry is marked success only if the importer minted
\* a token for that record in the transaction.
C29_ClientResultsTruthful ==
    [][(ClientDelivers /\ client'.tx.op \in {"importBatch", "importBatchWithTBA"}) =>
        /\ Len(client'.importResults) = Len(client'.selected)
        /\ \A i \in 1..Len(client'.selected) :
             /\ client'.importResults[i].originalTokenInfo = client'.selected[i].originalTokenInfo
             /\ client'.importResults[i].success =>
                  (client'.tx.mined /\ ~client'.tx.reverted /\ client'.tx.ret[i] # 0)]_vars

\* The tokens of registry n that the range importer minter minted with origin
\* tag info.
RangeMinted(n, minter, info) ==
    {i \in 1..Len(nft[n].tokens) :
        nft[n].tokens[i].minter = minter /\ nft[n].tokens[i].info = info}

\* C30: range importers admit each origin at most once.  After any sequence of
\* importTokens calls of either range importer, the destination registry holds,
\* for each source token, at most one token minted by that importer with the
\* origin tag "<sourceCollection>/<sourceTokenId>".
C30_RangeImportersAdmitOnce ==
    \A n \in RangeTargets, minter \in {NFTImporter, TBAImporter}, sourceCA \in DOMAIN Sources :
      \A tokenId \in 1.._lastTokenId(Sources[sourceCA]) :
        Cardinality(RangeMinted(n, minter, OriginalInfo(sourceCA, tokenId))) <= 1

====
